---- MODULE Spec2Model ----
(***************************************************************************)
(* Evidence Timeline engine: TimelineService.get_timeline and the helpers  *)
(* it drives (backend/app/services/timeline_service.py), the schemas it    *)
(* builds (backend/app/schemas/timeline.py) and the collaborators it calls *)
(* (case repository, case-member repository, evidence store, audit log),   *)
(* and the endpoint in front of it (backend/app/api/timeline.py).          *)
(*                                                                         *)
(* Python str values that the code orders (dates, times, event ids) are    *)
(* sequences of code points, compared as Python compares str.  Labels and  *)
(* types are only tested for equality and are TLA+ strings; the Korean     *)
(* labels of the source are written romanised:                             *)
(*   bujeonghaengwi = 부정행위, pokhaeng = 폭행, hakdae = 학대,            *)
(*   yugi = 유기, hyeopbak = 협박, wihyeop = 위협,                         *)
(*   aguiuiyugi = 악의의유기, pokeon = 폭언,                               *)
(*   gyesokjeok_bulhwa = 계속적_불화, honin_patan = 혼인_파탄,             *)
(*   jaesan_munje = 재산_문제, yangyuk_munje = 양육_문제.                  *)
(***************************************************************************)
EXTENDS Integers, Sequences, FiniteSets, TLC

VARIABLES
    store,            \* evidence store: the raw records get_evidence_by_case returns for case c1
    req,              \* the request being served: [case_id, user_id, filter]
    pc,               \* position of the request inside get_timeline
    evidence_list,    \* local of get_timeline: the fetched raw records
    all_events,       \* local of get_timeline: the normalized events
    filtered_events,  \* local of get_timeline: the filtered, sorted events
    outcome,          \* how get_timeline ended: "none" while running, "result" or an error name
    result,           \* what the caller got: <<the TimelineResult>>, or <<>> (running, or an error)
    evidence_reads,   \* number of get_evidence_by_case calls made by this request
    audit_calls,      \* the create_log calls made by this request, in order
    audit_log,        \* the audit entries actually written (all requests)
    audit_failed,     \* create_log raised in this request (the except branch of _log_timeline_view ran)
    remaining,        \* number of get_timeline calls the client still makes
    prev,             \* <<the previous finished call>>: its outcome, result, audit_failed; <<>> before
    query,            \* the query parameters of the HTTP request the endpoint received, or NoQuery
    threads,          \* the get_timeline calls running in parallel, each with its own locals
    draft             \* the DraftService call being served and its position, or NoDraft

vars == <<store, req, pc, evidence_list, all_events, filtered_events, outcome,
          result, evidence_reads, audit_calls, audit_log, audit_failed, remaining, prev,
          query, threads, draft>>

(***************************************************************************)
(* Bounds of the model.                                                    *)
(***************************************************************************)
MaxStore == 2
MaxCalls == 2
MaxLabels == 2
NumThreads == 2

(***************************************************************************)
(* Python str as a sequence of code points.                                *)
(***************************************************************************)
Two(n) == <<48 + (n \div 10), 48 + (n % 10)>>

Four(n) == <<48 + (n \div 1000), 48 + ((n \div 100) % 10)>> \o Two(n % 100)

\* %Y-%m-%d
FormatDate(ts) == Four(ts.y) \o <<45>> \o Two(ts.mo) \o <<45>> \o Two(ts.d)

\* %H:%M
FormatTime(ts) == Two(ts.h) \o <<58>> \o Two(ts.mi)

\* the sentinel date "날짜 미상"
UNKNOWN_DATE == <<45216, 51676, 32, 48120, 49345>>

\* "0000-00-00"
SORT_FIRST_DATE == <<48, 48, 48, 48, 45, 48, 48, 45, 48, 48>>

\* "9999-99-99"
SORT_LAST_DATE == <<57, 57, 57, 57, 45, 57, 57, 45, 57, 57>>

\* "00:00"
MIDNIGHT == <<48, 48, 58, 48, 48>>

\* "evt_"
EVT_PREFIX == <<101, 118, 116, 95>>

\* a < b for two Python str (code point order, a proper prefix is smaller)
RECURSIVE StrLT(_, _)
StrLT(a, b) ==
    IF b = <<>> THEN FALSE
    ELSE IF a = <<>> THEN TRUE
    ELSE IF Head(a) # Head(b) THEN Head(a) < Head(b)
    ELSE StrLT(Tail(a), Tail(b))

StrLE(a, b) == a = b \/ StrLT(a, b)

\* a < b for two Python tuples of str
RECURSIVE TupleLT(_, _)
TupleLT(a, b) ==
    IF b = <<>> THEN FALSE
    ELSE IF a = <<>> THEN TRUE
    ELSE IF Head(a) # Head(b) THEN StrLT(Head(a), Head(b))
    ELSE TupleLT(Tail(a), Tail(b))

(***************************************************************************)
(* Raw evidence records.  Every field of the dict is a tagged value: kind  *)
(* "absent" is a missing key, "none" is Python None.                       *)
(***************************************************************************)
\* an identifier field (evidence_id, id) and the speaker field
Absent == [k |-> "absent", s |-> <<>>]
None == [k |-> "none", s |-> <<>>]
Str(s) == [k |-> "str", s |-> s]

\* a timestamp field (timestamp, created_at): an ISO-8601 str ("str", ok says
\* whether datetime.fromisoformat accepts it), a datetime object, or an int
NoTs == [k |-> "absent", ok |-> FALSE, y |-> 0, mo |-> 0, d |-> 0, h |-> 0, mi |-> 0, tz |-> "naive"]
NoneTs == [NoTs EXCEPT !.k = "none"]
EmptyTs == [NoTs EXCEPT !.k = "empty"]
BadTs == [NoTs EXCEPT !.k = "str"]
IntTs == [NoTs EXCEPT !.k = "int"]
IsoTs(y, mo, d, h, mi, tz) ==
    [k |-> "str", ok |-> TRUE, y |-> y, mo |-> mo, d |-> d, h |-> h, mi |-> mi, tz |-> tz]
DatetimeTs(y, mo, d, h, mi, tz) ==
    [k |-> "datetime", ok |-> TRUE, y |-> y, mo |-> mo, d |-> d, h |-> h, mi |-> mi, tz |-> tz]

\* a labels value: items is what iterating the value yields; bad_item says
\* that a list holds an item that is no str
NoLabels == [k |-> "absent", items |-> <<>>, bad_item |-> FALSE]
NoneLabels == [NoLabels EXCEPT !.k = "none"]
IntLabels == [NoLabels EXCEPT !.k = "int"]
ListLabels(items) == [k |-> "list", items |-> items, bad_item |-> FALSE]
BadListLabels(items) == [k |-> "list", items |-> items, bad_item |-> TRUE]
TupleLabels(items) == [k |-> "tuple", items |-> items, bad_item |-> FALSE]

\* article_840_tags: a dict holding categories (a labels value), or not a dict
NoTags == [k |-> "absent", categories |-> NoLabels]
OtherTags == [k |-> "other", categories |-> NoLabels]
DictTags(categories) == [k |-> "dict", categories |-> categories]

\* a raw type value
NoType == [k |-> "absent", v |-> ""]
NoneType == [k |-> "none", v |-> ""]
StrType(v) == [k |-> "str", v |-> v]

\* a text field (ai_summary, summary, filename, content): a str of n characters
\* named by its origin (ell: its last three characters are "..."), or an int
NoText == [k |-> "absent", name |-> "", n |-> 0, ell |-> FALSE]
NoneText == [NoText EXCEPT !.k = "none"]
IntText == [NoText EXCEPT !.k = "int"]
EmptyText == [NoText EXCEPT !.k = "str"]
Text(name, n) == [k |-> "str", name |-> name, n |-> n, ell |-> FALSE]

\* bool(value) of Python
TruthyStr(v) == v.k = "str" /\ v.s # <<>>
TruthyTs(v) == v.k \in {"str", "datetime", "int"}
TruthyLabels(v) == (v.k \in {"list", "tuple"} /\ v.items # <<>>) \/ v.k = "int"
TruthyText(v) == (v.k = "str" /\ v.n > 0) \/ v.k = "int"

\* dict.get(key) of a field: a missing key reads as None
Get(v) == IF v.k = "absent" THEN [v EXCEPT !.k = "none"] ELSE v

\* a raw record with every key missing; the records of the model override fields
EmptyRaw ==
    [evidence_id |-> Absent, id |-> Absent, timestamp |-> NoTs, created_at |-> NoTs,
     labels |-> NoLabels, article_840_tags |-> NoTags, type |-> NoType,
     ai_summary |-> NoText, summary |-> NoText, filename |-> NoText,
     content |-> NoText, speaker |-> Absent,
     s3_key |-> Absent, status |-> Absent, qdrant_id |-> Absent]

(***************************************************************************)
(* Constants of timeline_service.py.                                       *)
(***************************************************************************)
SIGNIFICANCE_WEIGHTS ==
    ("bujeonghaengwi" :> 5) @@ ("pokhaeng" :> 5) @@ ("hakdae" :> 5) @@
    ("yugi" :> 4) @@ ("hyeopbak" :> 4) @@ ("wihyeop" :> 4) @@ ("aguiuiyugi" :> 4) @@
    ("pokeon" :> 3) @@ ("gyesokjeok_bulhwa" :> 3) @@ ("honin_patan" :> 3) @@
    ("jaesan_munje" :> 2) @@ ("yangyuk_munje" :> 2)

KEY_EVIDENCE_THRESHOLD == 4

KEY_EVIDENCE_LABELS ==
    {"bujeonghaengwi", "pokhaeng", "hakdae", "yugi", "hyeopbak", "wihyeop", "aguiuiyugi"}

TimelineEventType == {"message", "document", "image", "audio", "video", "incident"}

TYPE_MAPPING ==
    ("text" :> "message") @@ ("image" :> "image") @@ ("audio" :> "audio") @@
    ("video" :> "video") @@ ("pdf" :> "document") @@ ("document" :> "document")

DESCRIPTION_MAX == 100
DESCRIPTION_KEEP == 97
CONTENT_MAX == 200
CONTENT_KEEP == 197

\* the placeholder description "증거 자료" (5 characters)
PLACEHOLDER == Text("placeholder", 5)

(***************************************************************************)
(* TimelineService._evidence_to_event and _calculate_significance.         *)
(***************************************************************************)
\* line 176: evidence.get("evidence_id") or evidence.get("id", "")
EvidenceId(ev) ==
    IF TruthyStr(ev.evidence_id) THEN ev.evidence_id
    ELSE IF ev.id.k = "absent" THEN Str(<<>>) ELSE ev.id

\* line 179: evidence.get("timestamp") or evidence.get("created_at")
TimestampStr(ev) ==
    IF TruthyTs(ev.timestamp) THEN ev.timestamp ELSE Get(ev.created_at)

\* lines 180-198: the parsed datetime, absent for a falsy value, a str that
\* fromisoformat rejects (ValueError, caught) and a value of another shape
NoTimestamp == [present |-> FALSE, y |-> 0, mo |-> 0, d |-> 0, h |-> 0, mi |-> 0, tz |-> "naive"]

ParseTimestamp(ev) ==
    LET t == TimestampStr(ev)
        dt == [present |-> TRUE, y |-> t.y, mo |-> t.mo, d |-> t.d, h |-> t.h, mi |-> t.mi,
               tz |-> IF t.k = "str" /\ t.tz = "Z" THEN "+00:00" ELSE t.tz]
    IN  IF ~TruthyTs(t) THEN NoTimestamp
        ELSE IF t.k = "str" THEN (IF t.ok THEN dt ELSE NoTimestamp)
        ELSE IF t.k = "datetime" THEN dt
        ELSE NoTimestamp

\* DateStr without the sentinel
DateStrOfFields(ts) == FormatDate(ts)

\* lines 174, 195-196
DateStr(ts) == IF ts.present THEN FormatDate(ts) ELSE UNKNOWN_DATE

TimeStr(ts) == IF ts.present THEN FormatTime(ts) ELSE <<>>

\* lines 201-206: the labels value handed to _calculate_significance
ExtractLabels(ev) ==
    LET tags == ev.article_840_tags
        cats == tags.categories
    IN  IF TruthyLabels(ev.labels) THEN ev.labels
        ELSE IF tags.k = "dict" /\ TruthyLabels(cats) THEN cats
        ELSE ListLabels(<<>>)

\* Weight with the threshold as the weight of a label that is no key
WeightUnknownAsThreshold(label) ==
    IF label \in DOMAIN SIGNIFICANCE_WEIGHTS THEN SIGNIFICANCE_WEIGHTS[label]
    ELSE KEY_EVIDENCE_THRESHOLD

\* line 266: SIGNIFICANCE_WEIGHTS.get(label, 1)
Weight(label) ==
    IF label \in DOMAIN SIGNIFICANCE_WEIGHTS THEN SIGNIFICANCE_WEIGHTS[label] ELSE 1

Max(a, b) == IF a >= b THEN a ELSE b
Min(a, b) == IF a <= b THEN a ELSE b

RECURSIVE MaxWeight(_, _)
MaxWeight(items, acc) ==
    IF items = <<>> THEN acc ELSE MaxWeight(Tail(items), Max(acc, Weight(Head(items))))

\* lines 251-269 (iterating an int raises TypeError: see NormalizationFails)
CalculateSignificance(labels) ==
    IF ~TruthyLabels(labels) THEN 1 ELSE Min(MaxWeight(labels.items, 1), 5)

\* IsKeyEvidence with > for >=
IsKeyEvidenceAbove(significance) == significance > KEY_EVIDENCE_THRESHOLD

\* line 210
IsKeyEvidence(significance) == significance >= KEY_EVIDENCE_THRESHOLD

\* lines 213-214
MapType(ev) ==
    LET raw_type == IF ev.type.k = "absent" THEN StrType("document") ELSE ev.type
    IN  IF raw_type.k = "str" /\ raw_type.v \in DOMAIN TYPE_MAPPING
        THEN TYPE_MAPPING[raw_type.v] ELSE "document"

\* text[:keep] + "..." when the text is longer than max
Clip(t, max, keep) ==
    IF t.k = "str" /\ t.n > max THEN [t EXCEPT !.n = keep + 3, !.ell = TRUE] ELSE t

\* lines 217-219: the description before its length is taken
RawDescription(ev) ==
    LET first == IF TruthyText(ev.ai_summary) THEN ev.ai_summary
                 ELSE IF TruthyText(ev.summary) THEN ev.summary
                 ELSE EmptyText
    IN  IF TruthyText(first) THEN first
        ELSE IF ev.filename.k = "absent" THEN PLACEHOLDER ELSE ev.filename

\* lines 221-222
Description(ev) == Clip(RawDescription(ev), DESCRIPTION_MAX, DESCRIPTION_KEEP)

\* lines 225-227
ContentPreview(ev) == Clip(Get(ev.content), CONTENT_MAX, CONTENT_KEEP)

\* line 241: evidence.get("filename", "")
SourceFile(ev) == IF ev.filename.k = "absent" THEN EmptyText ELSE ev.filename

\* lines 229-249, the TimelineEvent built from a record
EvidenceToEvent(ev, case_id) ==
    LET labels == ExtractLabels(ev)
        ts == ParseTimestamp(ev)
        significance == CalculateSignificance(labels)
    IN  [event_id |-> EVT_PREFIX \o EvidenceId(ev).s,
         evidence_id |-> EvidenceId(ev).s,
         case_id |-> case_id,
         timestamp |-> ts,
         date |-> DateStr(ts),
         time |-> TimeStr(ts),
         description |-> Description(ev),
         content_preview |-> ContentPreview(ev),
         event_type |-> MapType(ev),
         labels |-> IF labels.k = "list" THEN labels.items ELSE <<>>,
         speaker |-> Get(ev.speaker),
         source_file |-> SourceFile(ev),
         significance |-> significance,
         is_key_evidence |-> IsKeyEvidence(significance),
         metadata |-> [s3_key |-> Get(ev.s3_key), status |-> Get(ev.status),
                       qdrant_id |-> Get(ev.qdrant_id)]]

\* _evidence_to_event raises: a TypeError of the code (iterating an int, len of
\* None or of an int), or the ValidationError of TimelineEvent for a value that
\* is no str where the schema wants one
NormalizationFails(ev) ==
    \/ ExtractLabels(ev).k = "int"
    \/ RawDescription(ev).k # "str"
    \/ (TruthyText(ev.content) /\ ev.content.k # "str")
    \/ EvidenceId(ev).k # "str"
    \/ ExtractLabels(ev).bad_item
    \/ SourceFile(ev).k # "str"
    \/ Get(ev.content).k \notin {"str", "none"}
    \/ Get(ev.speaker).k \notin {"str", "none"}

\* _build_events with break for continue
RECURSIVE BuildEventsUntilFailure(_, _)
BuildEventsUntilFailure(evidence, case_id) ==
    IF evidence = <<>> \/ NormalizationFails(Head(evidence)) THEN <<>>
    ELSE <<EvidenceToEvent(Head(evidence), case_id)>>
         \o BuildEventsUntilFailure(Tail(evidence), case_id)

\* lines 147-159: the loop of _build_events, a failing record is skipped
RECURSIVE BuildEvents(_, _)
BuildEvents(evidence, case_id) ==
    IF evidence = <<>> THEN <<>>
    ELSE IF NormalizationFails(Head(evidence)) THEN BuildEvents(Tail(evidence), case_id)
    ELSE <<EvidenceToEvent(Head(evidence), case_id)>> \o BuildEvents(Tail(evidence), case_id)

(***************************************************************************)
(* TimelineFilter (schemas/timeline.py lines 47-57).  An optional str is a *)
(* tagged value (None or Str), an optional list is NoList or List.         *)
(***************************************************************************)
NoList == [k |-> "none", items |-> <<>>]
List(items) == [k |-> "list", items |-> items]

\* TruthyList as the test: value is not None
IsNotNoneList(v) == v.k = "list"

\* bool(value) of an optional list
TruthyList(v) == v.k = "list" /\ v.items # <<>>

Range(s) == {s[i] : i \in 1..Len(s)}

\* TimelineFilter(): the defaults of the schema
DefaultFilter ==
    [date_start |-> None, date_end |-> None, labels |-> NoList, speakers |-> NoList,
     event_types |-> NoList, key_only |-> FALSE, limit |-> 50, offset |-> 0,
     sort_order |-> "asc"]

Filter(ds, de, ls, sp, et, ko, lim, off, so) ==
    [date_start |-> ds, date_end |-> de, labels |-> ls, speakers |-> sp,
     event_types |-> et, key_only |-> ko, limit |-> lim, offset |-> off,
     sort_order |-> so]

\* the arguments of get_timeline
Request(case_id, user_id, has_filter, f) ==
    [case_id |-> case_id, user_id |-> user_id, has_filter |-> has_filter, filter |-> f]

(***************************************************************************)
(* TimelineService._apply_filters (lines 271-340).                         *)
(***************************************************************************)
\* the date_start test without the sentinel test
PassDateStartNoSentinel(e, f) ==
    TruthyStr(f.date_start) => StrLE(f.date_start.s, e.date)

\* lines 289-293
PassDateStart(e, f) ==
    TruthyStr(f.date_start) => (e.date # UNKNOWN_DATE /\ StrLE(f.date_start.s, e.date))

\* the date_end test with < for <=
PassDateEndExclusive(e, f) ==
    TruthyStr(f.date_end) => (e.date # UNKNOWN_DATE /\ StrLT(e.date, f.date_end.s))

\* lines 295-299
PassDateEnd(e, f) ==
    TruthyStr(f.date_end) => (e.date # UNKNOWN_DATE /\ StrLE(e.date, f.date_end.s))

\* the labels test with all() for any()
PassLabelsEvery(e, f) ==
    TruthyList(f.labels) => (\A i \in 1..Len(e.labels) : e.labels[i] \in Range(f.labels.items))

\* lines 302-307
PassLabels(e, f) ==
    TruthyList(f.labels) => (\E i \in 1..Len(e.labels) : e.labels[i] \in Range(f.labels.items))

\* lines 310-315
PassSpeakers(e, f) ==
    TruthyList(f.speakers) => (e.speaker.k = "str" /\ e.speaker.s \in Range(f.speakers.items))

\* lines 318-323
PassEventTypes(e, f) ==
    TruthyList(f.event_types) => (e.event_type \in Range(f.event_types.items))

\* lines 326-327
PassKeyOnly(e, f) == f.key_only => e.is_key_evidence

\* sort_key without the event_id
sort_key_no_id(event) ==
    IF event.date = UNKNOWN_DATE THEN <<SORT_LAST_DATE>>
    ELSE <<event.date, IF event.time # <<>> THEN event.time ELSE MIDNIGHT>>

\* lines 331-335
sort_key(event) ==
    IF event.date = UNKNOWN_DATE THEN <<SORT_LAST_DATE, event.event_id>>
    ELSE <<event.date, IF event.time # <<>> THEN event.time ELSE MIDNIGHT, event.event_id>>

\* x goes before y in the order asked for
Precedes(x, y, reverse) ==
    IF reverse THEN TupleLT(sort_key(y), sort_key(x)) ELSE TupleLT(sort_key(x), sort_key(y))

RECURSIVE Insert(_, _, _)
Insert(x, s, reverse) ==
    IF s = <<>> THEN <<x>>
    ELSE IF Precedes(x, Head(s), reverse) THEN <<x>> \o s
    ELSE <<Head(s)>> \o Insert(x, Tail(s), reverse)

RECURSIVE SortInto(_, _, _)
SortInto(todo, done, reverse) ==
    IF todo = <<>> THEN done
    ELSE SortInto(Tail(todo), Insert(Head(todo), done, reverse), reverse)

\* line 338: sorted(filtered, key=sort_key, reverse=reverse); sorted is stable,
\* with reverse too (events of equal key keep the order they came in)
Sorted(events, reverse) == SortInto(events, <<>>, reverse)

Keep(events, f) ==
    LET pass1(e) == PassDateStart(e, f)
        pass2(e) == PassDateEnd(e, f)
        pass3(e) == PassLabels(e, f)
        pass4(e) == PassSpeakers(e, f)
        pass5(e) == PassEventTypes(e, f)
        pass6(e) == PassKeyOnly(e, f)
    IN  SelectSeq(SelectSeq(SelectSeq(SelectSeq(SelectSeq(SelectSeq(
            events, pass1), pass2), pass3), pass4), pass5), pass6)

ApplyFilters(events, f) == Sorted(Keep(events, f), f.sort_order = "desc")

(***************************************************************************)
(* TimelineService._build_result (lines 342-400) and the TimelineResult    *)
(* schema (schemas/timeline.py lines 66-77).                               *)
(***************************************************************************)
\* line 364: filtered_events[offset:offset + limit]
Paginated(filtered, f) ==
    SubSeq(filtered, f.offset + 1, Min(f.offset + f.limit, Len(filtered)))

\* line 365
HasMore(filtered, f) == Len(filtered) > f.offset + f.limit

\* lines 368-375
DateRange(events) ==
    LET valid_dates == {e.date : e \in {x \in Range(events) : x.date # UNKNOWN_DATE}}
    IN  IF valid_dates = {} THEN [start |-> None, end |-> None]
        ELSE [start |-> Str(CHOOSE d \in valid_dates : \A x \in valid_dates : StrLE(d, x)),
              end |-> Str(CHOOSE d \in valid_dates : \A x \in valid_dates : StrLE(x, d))]

\* line 378: Counter(e.event_type.value for e in all_events)
EventsByType(events) ==
    [t \in {e.event_type : e \in Range(events)} |->
        Cardinality({i \in 1..Len(events) : events[i].event_type = t})]

RECURSIVE Flatten(_)
Flatten(events) ==
    IF events = <<>> THEN <<>> ELSE Head(events).labels \o Flatten(Tail(events))

\* lines 381-384
EventsByLabel(events) ==
    LET entries == Flatten(events)
    IN  [l \in Range(entries) |-> Cardinality({i \in 1..Len(entries) : entries[i] = l})]

\* line 387
KeyEventsCount(events) ==
    Cardinality({i \in 1..Len(events) : events[i].is_key_evidence})

\* line 399: datetime.now(timezone.utc), a datetime object
GeneratedAt == [k |-> "datetime"]

\* lines 389-400: the keyword arguments handed to TimelineResult
ResultFields(case_id, all, filtered, f) ==
    [case_id |-> case_id,
     events |-> Paginated(filtered, f),
     total_count |-> Len(all),
     filtered_count |-> Len(filtered),
     has_more |-> HasMore(filtered, f),
     date_range |-> DateRange(all),
     events_by_type |-> EventsByType(all),
     events_by_label |-> EventsByLabel(all),
     key_events_count |-> KeyEventsCount(all),
     generated_at |-> GeneratedAt]

\* schemas/timeline.py line 77: generated_at is a str field, and the str
\* validator of the schema library accepts a str, never a datetime
TimelineResultAccepts(fields) == fields.generated_at.k = "str"

(***************************************************************************)
(* The collaborators: case repository, case-member repository, evidence    *)
(* store.  Case c1 exists and c2 does not; user u1 has a membership row    *)
(* for both, user u2 for none.                                             *)
(***************************************************************************)
CaseIds == {"c1", "c2"}
UserIds == {"u1", "u2"}
ExistingCases == {"c1"}
Memberships == {<<"c1", "u1">>, <<"c2", "u1">>}

\* case_repo.get_by_id(case_id) is not None
CaseExists(case_id) == case_id \in ExistingCases

\* has_access without the user_id filter
HasAccessAnyUser(case_id, user_id) == \E u \in UserIds : <<case_id, u>> \in Memberships

\* CaseMemberRepository.has_access (case_member_repository.py lines 60-71)
HasAccess(case_id, user_id) == <<case_id, user_id>> \in Memberships

\* get_evidence_by_case(case_id)
EvidenceByCase(case_id) == IF case_id = "c1" THEN store ELSE <<>>

\* line 123: filter or TimelineFilter()
EffectiveFilter(r) == IF r.has_filter THEN r.filter ELSE DefaultFilter

\* lines 421-425: the create_log call of _log_timeline_view
AuditEntry(case_id, user_id) ==
    [user_id |-> user_id, action |-> "VIEW_CASE", object_id |-> case_id]

(***************************************************************************)
(* TimelineService.get_timeline (lines 86-130), one action per step.       *)
(***************************************************************************)
StartCall ==
    /\ pc \in {"idle", "done"}
    /\ remaining > 0
    /\ remaining' = remaining - 1
    /\ pc' = "check_case"
    /\ prev' = IF pc = "done"
               THEN <<[outcome |-> outcome, result |-> result, audit_failed |-> audit_failed]>>
               ELSE prev
    /\ evidence_list' = <<>>
    /\ all_events' = <<>>
    /\ filtered_events' = <<>>
    /\ outcome' = "none"
    /\ result' = <<>>
    /\ evidence_reads' = 0
    /\ audit_calls' = <<>>
    /\ audit_failed' = FALSE
    /\ UNCHANGED <<draft, query, threads, store, req, audit_log>>

\* get_timeline with the membership check before the existence check
CheckAccessBeforeCase ==
    /\ pc = "check_case"
    /\ IF ~HasAccess(req.case_id, req.user_id)
       THEN pc' = "done" /\ outcome' = "PermissionError"
       ELSE IF ~CaseExists(req.case_id)
       THEN pc' = "done" /\ outcome' = "NotFoundError"
       ELSE pc' = "fetch" /\ outcome' = outcome
    /\ UNCHANGED <<draft, query, threads, store, req, evidence_list, all_events, filtered_events, result,
                   evidence_reads, audit_calls, audit_log, audit_failed, remaining, prev>>

\* lines 108-110
CheckCase ==
    /\ pc = "check_case"
    /\ IF CaseExists(req.case_id)
       THEN pc' = "check_access" /\ outcome' = outcome
       ELSE pc' = "done" /\ outcome' = "NotFoundError"
    /\ UNCHANGED <<draft, query, threads, store, req, evidence_list, all_events, filtered_events, result,
                   evidence_reads, audit_calls, audit_log, audit_failed, remaining, prev>>

\* lines 113-114
CheckAccess ==
    /\ pc = "check_access"
    /\ IF HasAccess(req.case_id, req.user_id)
       THEN pc' = "fetch" /\ outcome' = outcome
       ELSE pc' = "done" /\ outcome' = "PermissionError"
    /\ UNCHANGED <<draft, query, threads, store, req, evidence_list, all_events, filtered_events, result,
                   evidence_reads, audit_calls, audit_log, audit_failed, remaining, prev>>

\* line 117
FetchEvidence ==
    /\ pc = "fetch"
    /\ evidence_list' = EvidenceByCase(req.case_id)
    /\ evidence_reads' = evidence_reads + 1
    /\ pc' = "build_events"
    /\ UNCHANGED <<draft, query, threads, store, req, all_events, filtered_events, outcome, result,
                   audit_calls, audit_log, audit_failed, remaining, prev>>

\* line 120
BuildEventsStep ==
    /\ pc = "build_events"
    /\ all_events' = BuildEvents(evidence_list, req.case_id)
    /\ pc' = "apply_filters"
    /\ UNCHANGED <<draft, query, threads, store, req, evidence_list, filtered_events, outcome, result,
                   evidence_reads, audit_calls, audit_log, audit_failed, remaining, prev>>

\* lines 123-124
ApplyFiltersStep ==
    /\ pc = "apply_filters"
    /\ filtered_events' = ApplyFilters(all_events, EffectiveFilter(req))
    /\ pc' = "log"
    /\ UNCHANGED <<draft, query, threads, store, req, evidence_list, all_events, outcome, result,
                   evidence_reads, audit_calls, audit_log, audit_failed, remaining, prev>>

\* line 127 and _log_timeline_view (lines 418-428): create_log is called once;
\* it writes the entry or raises, and the exception is caught and logged
LogTimelineView ==
    /\ pc = "log"
    /\ audit_calls' = Append(audit_calls, AuditEntry(req.case_id, req.user_id))
    /\ \E raised \in BOOLEAN :
          /\ audit_failed' = raised
          /\ audit_log' = IF raised THEN audit_log
                          ELSE Append(audit_log, AuditEntry(req.case_id, req.user_id))
    /\ pc' = "build_result"
    /\ UNCHANGED <<draft, query, threads, store, req, evidence_list, all_events, filtered_events, outcome,
                   result, evidence_reads, remaining, prev>>

\* line 130 and _build_result: TimelineResult(...) validates its arguments and
\* raises ValidationError when one is rejected; nothing in get_timeline catches it
BuildResultStep ==
    /\ pc = "build_result"
    /\ LET fields == ResultFields(req.case_id, all_events, filtered_events,
                                  EffectiveFilter(req))
       IN  IF TimelineResultAccepts(fields)
           THEN outcome' = "result" /\ result' = <<fields>>
           ELSE outcome' = "ValidationError" /\ result' = <<>>
    /\ pc' = "done"
    /\ UNCHANGED <<draft, query, threads, store, req, evidence_list, all_events, filtered_events,
                   evidence_reads, audit_calls, audit_log, audit_failed, remaining, prev>>

Next ==
    \/ StartCall
    \/ CheckCase
    \/ CheckAccess
    \/ FetchEvidence
    \/ BuildEventsStep
    \/ ApplyFiltersStep
    \/ LogTimelineView
    \/ BuildResultStep

(***************************************************************************)
(* The endpoint GET /cases/{case_id}/timeline (backend/app/api/timeline.py *)
(* lines 23-112).  The value of a query parameter is None or a str, a      *)
(* sequence of code points.                                                *)
(***************************************************************************)
\* no HTTP request: get_timeline of the service is called directly
NoQuery == [k |-> "none"]

\* str.isspace of one character (the ASCII ones, NEL and NBSP)
IsSpace(c) == c \in (9..13) \cup (28..32) \cup {133, 160}

RECURSIVE LStrip(_)
LStrip(s) == IF s # <<>> /\ IsSpace(Head(s)) THEN LStrip(Tail(s)) ELSE s

RECURSIVE RStrip(_)
RStrip(s) ==
    IF s # <<>> /\ IsSpace(s[Len(s)]) THEN RStrip(SubSeq(s, 1, Len(s) - 1)) ELSE s

\* v.strip()
Strip(s) == RStrip(LStrip(s))

\* v.lower(), on ASCII letters
Lower(s) == [i \in 1..Len(s) |-> IF s[i] \in 65..90 THEN s[i] + 32 ELSE s[i]]

\* value.split(","): the parts found, the part being read, the rest
RECURSIVE SplitInto(_, _, _)
SplitInto(rest, current, parts) ==
    IF rest = <<>> THEN Append(parts, current)
    ELSE IF Head(rest) = 44 THEN SplitInto(Tail(rest), <<>>, Append(parts, current))
    ELSE SplitInto(Tail(rest), Append(current, Head(rest)), parts)

Split(value) == SplitInto(value, <<>>, <<>>)

\* TimelineEventType(v): the member of the enum with the value v
EventTypeByValue ==
    (<<109, 101, 115, 115, 97, 103, 101>> :> "message") @@
    (<<100, 111, 99, 117, 109, 101, 110, 116>> :> "document") @@
    (<<105, 109, 97, 103, 101>> :> "image") @@
    (<<97, 117, 100, 105, 111>> :> "audio") @@
    (<<118, 105, 100, 101, 111>> :> "video") @@
    (<<105, 110, 99, 105, 100, 101, 110, 116>> :> "incident")

\* lines 106-111: the loop of _parse_event_types, ValueError skips the token
RECURSIVE CollectEventTypes(_)
CollectEventTypes(tokens) ==
    IF tokens = <<>> THEN <<>>
    ELSE LET v == Lower(Strip(Head(tokens)))
         IN  (IF v \in DOMAIN EventTypeByValue THEN <<EventTypeByValue[v]>> ELSE <<>>)
             \o CollectEventTypes(Tail(tokens))

\* _parse_event_types giving up the filter when a token is invalid
ParseEventTypesAllOrNothing(value) ==
    IF ~TruthyStr(value) THEN NoList
    ELSE LET tokens == Split(value.s)
             types == CollectEventTypes(tokens)
         IN  IF types = <<>> \/ Len(types) # Len(tokens) THEN NoList ELSE List(types)

\* _parse_event_types (lines 101-112)
ParseEventTypes(value) ==
    IF ~TruthyStr(value) THEN NoList
    ELSE LET types == CollectEventTypes(Split(value.s))
         IN  IF types = <<>> THEN NoList ELSE List(types)

\* [v.strip() for v in value.split(",") if v.strip()]
RECURSIVE StrippedParts(_)
StrippedParts(tokens) ==
    IF tokens = <<>> THEN <<>>
    ELSE LET v == Strip(Head(tokens))
         IN  (IF v # <<>> THEN <<v>> ELSE <<>>) \o StrippedParts(Tail(tokens))

\* _parse_csv (lines 94-98): None for a falsy value, else a list, maybe empty
ParseCsv(value) ==
    IF ~TruthyStr(value) THEN NoList ELSE List(StrippedParts(Split(value.s)))

\* the name this module writes for a label str (see the head of the module)
LabelNames ==
    (<<54253, 50616>> :> "pokeon") @@
    (<<48512, 51221, 54665, 50948>> :> "bujeonghaengwi") @@
    (<<50976, 44592>> :> "yugi")

LabelsNamed(list) ==
    [list EXCEPT !.items =
        [i \in 1..Len(list.items) |->
            IF list.items[i] \in DOMAIN LabelNames THEN LabelNames[list.items[i]]
            ELSE "unnamed"]]

\* lines 30-33: the constraints of Query(...) on limit, offset and sort_order
\* (ge=1, le=200; ge=0; regex ^(asc|desc)$); the framework answers a request
\* that breaks one with a validation error and does not call the endpoint
ValidQuery(q) ==
    /\ q.limit >= 1
    /\ q.limit <= 200
    /\ q.offset >= 0
    /\ q.sort_order \in {"asc", "desc"}

\* lines 71-81: the TimelineFilter built from the query parameters
FilterOfQuery(q) ==
    Filter(q.date_start, q.date_end, LabelsNamed(ParseCsv(q.labels)), ParseCsv(q.speakers),
           ParseEventTypes(q.event_types), q.key_only, q.limit, q.offset, q.sort_order)

\* lines 23-86: validation of the query parameters, the filter, the call of
\* TimelineService(db).get_timeline(case_id, user_id, filter_params); the
\* steps of the service follow, and its outcome is the outcome of the request
ApiGetTimeline ==
    /\ pc = "api"
    /\ IF ValidQuery(query)
       THEN /\ req' = Request(query.case_id, query.user_id, TRUE, FilterOfQuery(query))
            /\ pc' = "check_case"
            /\ outcome' = outcome
       ELSE /\ req' = req
            /\ pc' = "done"
            /\ outcome' = "RequestValidationError"
    /\ UNCHANGED <<draft, query, threads, store, evidence_list, all_events, filtered_events,
                   result, evidence_reads, audit_calls, audit_log, audit_failed,
                   remaining, prev>>

NextApi ==
    \/ ApiGetTimeline
    \/ CheckCase
    \/ CheckAccess
    \/ FetchEvidence
    \/ BuildEventsStep
    \/ ApplyFiltersStep
    \/ LogTimelineView
    \/ BuildResultStep

\* a request through the endpoint, or a call of get_timeline by other code
NextAnyCaller ==
    \/ ApiGetTimeline
    \/ Next

(***************************************************************************)
(* get_timeline calls running in parallel: the framework serves each       *)
(* request with its own TimelineService object and its own locals; the     *)
(* evidence store and the audit log are shared.                            *)
(***************************************************************************)
\* the variables of the single call
call_vars ==
    <<req, pc, evidence_list, all_events, filtered_events, outcome, result,
      evidence_reads, audit_calls, audit_failed, remaining, prev, query, draft>>

\* the locals of a call that has just entered get_timeline
Thread(r) ==
    [req |-> r, pc |-> "check_case", evidence_list |-> <<>>, all_events |-> <<>>,
     filtered_events |-> <<>>, outcome |-> "none", result |-> <<>>,
     audit_calls |-> <<>>, audit_failed |-> FALSE]

\* lines 108-110
ThreadCheckCase(t) ==
    /\ threads[t].pc = "check_case"
    /\ LET me == threads[t]
       IN  threads' = [threads EXCEPT ![t] =
               IF CaseExists(me.req.case_id) THEN [me EXCEPT !.pc = "check_access"]
               ELSE [me EXCEPT !.pc = "done", !.outcome = "NotFoundError"]]
    /\ UNCHANGED <<store, audit_log, call_vars>>

\* lines 113-114
ThreadCheckAccess(t) ==
    /\ threads[t].pc = "check_access"
    /\ LET me == threads[t]
       IN  threads' = [threads EXCEPT ![t] =
               IF HasAccess(me.req.case_id, me.req.user_id) THEN [me EXCEPT !.pc = "fetch"]
               ELSE [me EXCEPT !.pc = "done", !.outcome = "PermissionError"]]
    /\ UNCHANGED <<store, audit_log, call_vars>>

\* line 117
ThreadFetchEvidence(t) ==
    /\ threads[t].pc = "fetch"
    /\ threads' = [threads EXCEPT ![t].evidence_list = EvidenceByCase(threads[t].req.case_id),
                                  ![t].pc = "build_events"]
    /\ UNCHANGED <<store, audit_log, call_vars>>

\* line 120
ThreadBuildEvents(t) ==
    /\ threads[t].pc = "build_events"
    /\ threads' = [threads EXCEPT
                      ![t].all_events = BuildEvents(threads[t].evidence_list,
                                                    threads[t].req.case_id),
                      ![t].pc = "apply_filters"]
    /\ UNCHANGED <<store, audit_log, call_vars>>

\* lines 123-124
ThreadApplyFilters(t) ==
    /\ threads[t].pc = "apply_filters"
    /\ threads' = [threads EXCEPT
                      ![t].filtered_events = ApplyFilters(threads[t].all_events,
                                                          EffectiveFilter(threads[t].req)),
                      ![t].pc = "log"]
    /\ UNCHANGED <<store, audit_log, call_vars>>

\* line 127 and _log_timeline_view (lines 418-428)
ThreadLogTimelineView(t) ==
    /\ threads[t].pc = "log"
    /\ LET entry == AuditEntry(threads[t].req.case_id, threads[t].req.user_id)
       IN  \E raised \in BOOLEAN :
              /\ threads' = [threads EXCEPT
                                ![t].audit_calls = Append(threads[t].audit_calls, entry),
                                ![t].audit_failed = raised,
                                ![t].pc = "build_result"]
              /\ audit_log' = IF raised THEN audit_log ELSE Append(audit_log, entry)
    /\ UNCHANGED <<store, call_vars>>

\* line 130 and _build_result
ThreadBuildResult(t) ==
    /\ threads[t].pc = "build_result"
    /\ LET me == threads[t]
           fields == ResultFields(me.req.case_id, me.all_events, me.filtered_events,
                                  EffectiveFilter(me.req))
       IN  threads' = [threads EXCEPT ![t] =
               IF TimelineResultAccepts(fields)
               THEN [me EXCEPT !.pc = "done", !.outcome = "result", !.result = <<fields>>]
               ELSE [me EXCEPT !.pc = "done", !.outcome = "ValidationError"]]
    /\ UNCHANGED <<store, audit_log, call_vars>>

NextThreads ==
    \E t \in DOMAIN threads :
        \/ ThreadCheckCase(t)
        \/ ThreadCheckAccess(t)
        \/ ThreadFetchEvidence(t)
        \/ ThreadBuildEvents(t)
        \/ ThreadApplyFilters(t)
        \/ ThreadLogTimelineView(t)
        \/ ThreadBuildResult(t)

(***************************************************************************)
(* DraftService (draft_service.py): generate_draft_preview (lines 44-124)  *)
(* and export_draft (lines 519-564), one action per step.  A call is the   *)
(* record draft: op is the method the client called, pc the position,      *)
(* nested says that generate_draft_preview runs inside export_draft,       *)
(* raised_in is the method whose raise statement ended the call,           *)
(* rag_calls counts the vector searches (search_evidence_by_semantic,      *)
(* search_legal_knowledge) and llm_calls the generate_chat_completion      *)
(* calls made so far.                                                      *)
(***************************************************************************)
\* no DraftService call is being served
NoDraft == [op |-> "none"]

\* the locals of a call that has just entered the method op
DraftCall(op, case_id, user_id, export_format, libs) ==
    [op |-> op, pc |-> IF op = "export" THEN "export_check_case" ELSE "check_case",
     case_id |-> case_id, user_id |-> user_id, export_format |-> export_format,
     libs |-> libs, nested |-> FALSE, outcome |-> "none", raised_in |-> "none",
     evidence |-> <<>>, evidence_reads |-> 0, rag_calls |-> 0, llm_calls |-> 0]

\* a raise statement of the method m ends the call: nothing catches it
DraftRaise(error, m) == [draft EXCEPT !.pc = "done", !.outcome = error, !.raised_in = m]

\* export_draft lines 547-549
ExportCheckCase ==
    /\ draft.op = "export" /\ draft.pc = "export_check_case"
    /\ draft' = IF CaseExists(draft.case_id)
                THEN [draft EXCEPT !.pc = "export_check_access"]
                ELSE DraftRaise("NotFoundError", "export_draft")
    /\ UNCHANGED <<store, audit_log, threads, req, pc, evidence_list, all_events, filtered_events,
                   outcome, result, evidence_reads, audit_calls, audit_failed, remaining,
                   prev, query>>

\* export_draft lines 551-552
ExportCheckAccess ==
    /\ draft.op = "export" /\ draft.pc = "export_check_access"
    /\ draft' = IF HasAccess(draft.case_id, draft.user_id)
                THEN [draft EXCEPT !.pc = "export_preview"]
                ELSE DraftRaise("PermissionError", "export_draft")
    /\ UNCHANGED <<store, audit_log, threads, req, pc, evidence_list, all_events, filtered_events,
                   outcome, result, evidence_reads, audit_calls, audit_failed, remaining,
                   prev, query>>

\* export_draft lines 555-556: the call of generate_draft_preview
ExportCallPreview ==
    /\ draft.op = "export" /\ draft.pc = "export_preview"
    /\ draft' = [draft EXCEPT !.pc = "check_case", !.nested = TRUE]
    /\ UNCHANGED <<store, audit_log, threads, req, pc, evidence_list, all_events, filtered_events,
                   outcome, result, evidence_reads, audit_calls, audit_failed, remaining,
                   prev, query>>

\* generate_draft_preview lines 75-77
DraftCheckCase ==
    /\ draft.op # "none" /\ draft.pc = "check_case"
    /\ draft' = IF CaseExists(draft.case_id)
                THEN [draft EXCEPT !.pc = "check_access"]
                ELSE DraftRaise("NotFoundError", "generate_draft_preview")
    /\ UNCHANGED <<store, audit_log, threads, req, pc, evidence_list, all_events, filtered_events,
                   outcome, result, evidence_reads, audit_calls, audit_failed, remaining,
                   prev, query>>

\* generate_draft_preview lines 79-80
DraftCheckAccess ==
    /\ draft.op # "none" /\ draft.pc = "check_access"
    /\ draft' = IF HasAccess(draft.case_id, draft.user_id)
                THEN [draft EXCEPT !.pc = "fetch"]
                ELSE DraftRaise("PermissionError", "generate_draft_preview")
    /\ UNCHANGED <<store, audit_log, threads, req, pc, evidence_list, all_events, filtered_events,
                   outcome, result, evidence_reads, audit_calls, audit_failed, remaining,
                   prev, query>>

\* generate_draft_preview with the vector searches made before the evidence check
DraftSearchBeforeEvidenceCheck ==
    /\ draft.op # "none" /\ draft.pc = "fetch"
    /\ LET fetched == EvidenceByCase(draft.case_id)
           searched == [draft EXCEPT !.evidence = fetched,
                                     !.evidence_reads = @ + 1, !.rag_calls = @ + 2]
       IN  draft' = IF fetched = <<>>
                    THEN [searched EXCEPT !.pc = "done", !.outcome = "ValidationError",
                                          !.raised_in = "generate_draft_preview"]
                    ELSE [searched EXCEPT !.pc = "completion"]
    /\ UNCHANGED <<store, audit_log, threads, req, pc, evidence_list, all_events, filtered_events,
                   outcome, result, evidence_reads, audit_calls, audit_failed, remaining,
                   prev, query>>

\* generate_draft_preview lines 83-87: get_evidence_by_case, then the empty check
DraftFetchEvidence ==
    /\ draft.op # "none" /\ draft.pc = "fetch"
    /\ LET fetched == EvidenceByCase(draft.case_id)
           read == [draft EXCEPT !.evidence = fetched, !.evidence_reads = @ + 1]
       IN  draft' = IF fetched = <<>>
                    THEN [read EXCEPT !.pc = "done", !.outcome = "ValidationError",
                                      !.raised_in = "generate_draft_preview"]
                    ELSE [read EXCEPT !.pc = "rag"]
    /\ UNCHANGED <<store, audit_log, threads, req, pc, evidence_list, all_events, filtered_events,
                   outcome, result, evidence_reads, audit_calls, audit_failed, remaining,
                   prev, query>>

\* generate_draft_preview lines 94-96 and _perform_rag_search (lines 125-166):
\* one search_evidence_by_semantic and one search_legal_knowledge call
DraftRagSearch ==
    /\ draft.op # "none" /\ draft.pc = "rag"
    /\ draft' = [draft EXCEPT !.pc = "completion", !.rag_calls = @ + 2]
    /\ UNCHANGED <<store, audit_log, threads, req, pc, evidence_list, all_events, filtered_events,
                   outcome, result, evidence_reads, audit_calls, audit_failed, remaining,
                   prev, query>>

\* generate_draft_preview lines 99-113: _build_draft_prompt, generate_chat_completion
DraftCompletion ==
    /\ draft.op # "none" /\ draft.pc = "completion"
    /\ draft' = [draft EXCEPT !.pc = "respond", !.llm_calls = @ + 1]
    /\ UNCHANGED <<store, audit_log, threads, req, pc, evidence_list, all_events, filtered_events,
                   outcome, result, evidence_reads, audit_calls, audit_failed, remaining,
                   prev, query>>

\* generate_draft_preview lines 116-123: _extract_citations and the response;
\* inside export_draft the response goes back to line 556
DraftRespond ==
    /\ draft.op # "none" /\ draft.pc = "respond"
    /\ draft' = IF draft.nested
                THEN [draft EXCEPT !.pc = "convert", !.nested = FALSE]
                ELSE [draft EXCEPT !.pc = "done", !.outcome = "DraftPreviewResponse"]
    /\ UNCHANGED <<store, audit_log, threads, req, pc, evidence_list, all_events, filtered_events,
                   outcome, result, evidence_reads, audit_calls, audit_failed, remaining,
                   prev, query>>

\* export_draft lines 559-564 with _generate_docx (lines 581-582) and _generate_pdf
\* (lines 829-830): the conversion, or a ValidationError of export_draft
ExportConvert ==
    /\ draft.op = "export" /\ draft.pc = "convert"
    /\ draft' = IF draft.export_format \in {"docx", "pdf"} /\ draft.export_format \in draft.libs
                THEN [draft EXCEPT !.pc = "done", !.outcome = "file"]
                ELSE DraftRaise("ValidationError", "export_draft")
    /\ UNCHANGED <<store, audit_log, threads, req, pc, evidence_list, all_events, filtered_events,
                   outcome, result, evidence_reads, audit_calls, audit_failed, remaining,
                   prev, query>>

NextDraft ==
    \/ ExportCheckCase
    \/ ExportCheckAccess
    \/ ExportCallPreview
    \/ DraftCheckCase
    \/ DraftCheckAccess
    \/ DraftFetchEvidence
    \/ DraftRagSearch
    \/ DraftCompletion
    \/ DraftRespond
    \/ ExportConvert

(***************************************************************************)
(* Inputs: the raw records the evidence store may hold and the requests    *)
(* the client may send.                                                    *)
(***************************************************************************)
\* the str "e<n>"
Id(n) == <<101, 48 + n>>

\* the date str of a day
Day(y, mo, d) == FormatDate([y |-> y, mo |-> mo, d |-> d])

\* {type: "text", labels: ["부정행위"], timestamp: "2024-01-10T09:00:00Z"}
RawInfidelity ==
    [EmptyRaw EXCEPT !.evidence_id = Str(Id(1)),
                     !.timestamp = IsoTs(2024, 1, 10, 9, 0, "Z"),
                     !.labels = ListLabels(<<"bujeonghaengwi">>),
                     !.type = StrType("text"),
                     !.ai_summary = Text("ai_summary", 20),
                     !.filename = Text("filename", 8),
                     !.speaker = Str(<<65>>),
                     !.status = Str(<<100>>)]

\* {type: "image", labels: [], timestamp: None}: no date
RawUndated ==
    [EmptyRaw EXCEPT !.evidence_id = Str(Id(2)),
                     !.timestamp = NoneTs,
                     !.labels = ListLabels(<<>>),
                     !.type = StrType("image"),
                     !.filename = Text("filename", 8)]

\* only the generic id, created_at as a datetime with an offset, labels under
\* article_840_tags, an upper-case type, a long summary and a long content
RawTagged ==
    [EmptyRaw EXCEPT !.id = Str(Id(3)),
                     !.created_at = DatetimeTs(2024, 3, 5, 14, 30, "+09:00"),
                     !.article_840_tags = DictTags(ListLabels(<<"pokeon", "yugi">>)),
                     !.type = StrType("AUDIO"),
                     !.summary = Text("summary", 120),
                     !.content = Text("content", 250),
                     !.speaker = Str(<<66>>)]

\* same date and time as RawInfidelity, a smaller id, a low-weight label
RawSameMinute ==
    [EmptyRaw EXCEPT !.evidence_id = Str(Id(0)),
                     !.timestamp = IsoTs(2024, 1, 10, 9, 0, "naive"),
                     !.labels = ListLabels(<<"jaesan_munje", "pokeon">>),
                     !.type = StrType("video"),
                     !.filename = EmptyText,
                     !.speaker = Str(<<65>>)]

\* no identifier at all, a timestamp str that does not parse, labels as a tuple
RawNoId ==
    [EmptyRaw EXCEPT !.timestamp = BadTs,
                     !.labels = TupleLabels(<<"pokhaeng">>),
                     !.type = NoneType]

\* ai_summary is an int: len(description) raises TypeError
RawIntSummary ==
    [EmptyRaw EXCEPT !.evidence_id = Str(Id(4)),
                     !.timestamp = IsoTs(2024, 1, 10, 9, 0, "Z"),
                     !.labels = ListLabels(<<"hakdae">>),
                     !.type = StrType("audio"),
                     !.ai_summary = IntText]

\* filename is None and there is no summary: len(None) raises TypeError
RawNoneFilename ==
    [EmptyRaw EXCEPT !.evidence_id = Str(Id(5)),
                     !.timestamp = IntTs,
                     !.type = StrType("pdf"),
                     !.filename = NoneText]

\* evidence_id and id are None, labels hold an item that is no str
RawNoneId ==
    [EmptyRaw EXCEPT !.evidence_id = None,
                     !.id = None,
                     !.created_at = IsoTs(2024, 3, 5, 14, 30, "Z"),
                     !.labels = BadListLabels(<<"hyeopbak">>),
                     !.filename = Text("filename", 8)]

\* no identifier, no timestamp, type image: its event has the event_id
\* "evt_" and the unknown date, as the event of RawNoId has
RawAnonymous ==
    [EmptyRaw EXCEPT !.type = StrType("image"),
                     !.filename = Text("filename", 8)]

\* the day of RawInfidelity, later in the day
RawEvening ==
    [EmptyRaw EXCEPT !.evidence_id = Str(Id(6)),
                     !.timestamp = IsoTs(2024, 1, 10, 18, 5, "Z"),
                     !.labels = ListLabels(<<"yugi">>),
                     !.type = StrType("pdf"),
                     !.filename = Text("filename", 8),
                     !.speaker = Str(<<65>>)]

RawPool ==
    {RawInfidelity, RawUndated, RawTagged, RawSameMinute, RawNoId,
     RawIntSummary, RawNoneFilename, RawNoneId}

\* every sequence over S of length at most n
SeqsUpTo(S, n) == UNION {[1..k -> S] : k \in 0..n}

Stores == SeqsUpTo(RawPool, MaxStore)

FilterPool ==
    {DefaultFilter,
     [DefaultFilter EXCEPT !.sort_order = "desc"],
     [DefaultFilter EXCEPT !.limit = 1],
     [DefaultFilter EXCEPT !.limit = 1, !.offset = 1],
     [DefaultFilter EXCEPT !.offset = 2, !.sort_order = "desc"],
     [DefaultFilter EXCEPT !.date_start = Str(Day(2024, 1, 10))],
     [DefaultFilter EXCEPT !.date_start = Str(<<>>), !.date_end = Str(<<>>)],
     [DefaultFilter EXCEPT !.date_end = Str(Day(2024, 1, 10)), !.limit = 1],
     [DefaultFilter EXCEPT !.date_start = Str(Day(2024, 2, 1)),
                           !.date_end = Str(Day(2024, 12, 31))],
     [DefaultFilter EXCEPT !.labels = List(<<"pokeon", "bujeonghaengwi">>)],
     [DefaultFilter EXCEPT !.labels = List(<<>>), !.speakers = List(<<<<65>>>>)],
     [DefaultFilter EXCEPT !.event_types = List(<<"audio", "video">>)],
     [DefaultFilter EXCEPT !.key_only = TRUE],
     [DefaultFilter EXCEPT !.key_only = TRUE, !.sort_order = "desc", !.limit = 1]}

Requests ==
    {Request(c, u, TRUE, f) : c \in CaseIds, u \in UserIds, f \in FilterPool}
    \cup {Request(c, u, FALSE, DefaultFilter) : c \in CaseIds, u \in UserIds}

\* the state after TimelineService is constructed, before a call
Idle ==
    /\ pc = "idle"
    /\ evidence_list = <<>>
    /\ all_events = <<>>
    /\ filtered_events = <<>>
    /\ outcome = "none"
    /\ result = <<>>
    /\ evidence_reads = 0
    /\ audit_calls = <<>>
    /\ audit_log = <<>>
    /\ audit_failed = FALSE
    /\ prev = <<>>
    /\ query = NoQuery
    /\ threads = <<>>
    /\ draft = NoDraft

Init ==
    /\ store \in Stores
    /\ req \in Requests
    /\ remaining = MaxCalls
    /\ Idle

Spec == Init /\ [][Next]_vars

(***************************************************************************)
(* SpecNorm: one call on a store of one record, the record drawn from a    *)
(* product of field values (every label list up to MaxLabels labels).      *)
(***************************************************************************)
\* one label of each weight, and one that is no key of the table
LabelUniverse == {"bujeonghaengwi", "yugi", "pokeon", "jaesan_munje", "gita"}

LabelValues ==
    {NoLabels, NoneLabels, IntLabels, TupleLabels(<<"pokhaeng">>),
     BadListLabels(<<"hyeopbak">>)}
    \cup {ListLabels(items) : items \in SeqsUpTo(LabelUniverse, MaxLabels)}

TagValues ==
    {NoTags, OtherTags, DictTags(ListLabels(<<"yugi", "pokeon">>)), DictTags(IntLabels)}

RawSpace ==
    {[EmptyRaw EXCEPT !.evidence_id = eid, !.id = id, !.timestamp = ts, !.labels = ls,
                      !.article_840_tags = tags, !.type = ty, !.ai_summary = ai,
                      !.filename = fn] :
        eid \in {Absent, Str(Id(1))},
        id \in {Absent, Str(Id(3))},
        ts \in {NoTs, IsoTs(2024, 1, 10, 9, 0, "Z")},
        ls \in LabelValues,
        tags \in TagValues,
        ty \in {StrType("text"), StrType("TEXT")},
        ai \in {NoText, Text("ai_summary", 120)},
        fn \in {Text("filename", 8), NoneText}}

InitNorm ==
    /\ store \in {<<r>> : r \in RawSpace}
    /\ req \in {Request("c1", "u1", FALSE, DefaultFilter),
                Request("c1", "u1", TRUE, [DefaultFilter EXCEPT !.key_only = TRUE])}
    /\ remaining = 1
    /\ Idle

SpecNorm == InitNorm /\ [][Next]_vars

(***************************************************************************)
(* SpecFilter: one call by a member on case c1, the filter drawn from a    *)
(* product of field values, the store from records that all normalize.     *)
(***************************************************************************)
DateBounds == {None, Str(<<>>), Str(Day(2024, 1, 10)), Str(Day(2024, 2, 1))}

FilterSpace ==
    {Filter(ds, de, ls, sp, et, ko, page[1], page[2], so) :
        ds \in DateBounds,
        de \in DateBounds,
        ls \in {NoList, List(<<"pokeon", "bujeonghaengwi">>)},
        sp \in {NoList, List(<<<<65>>>>)},
        et \in {NoList, List(<<"image", "video">>)},
        ko \in BOOLEAN,
        page \in {<<50, 0>>, <<1, 1>>},
        so \in {"asc", "desc"}}

InitFilter ==
    /\ store \in SeqsUpTo({RawInfidelity, RawUndated, RawTagged, RawSameMinute, RawNoId},
                          MaxStore)
    /\ req \in {Request("c1", "u1", TRUE, f) : f \in FilterSpace}
    /\ remaining = 1
    /\ Idle

SpecFilter == InitFilter /\ [][Next]_vars

(***************************************************************************)
(* SpecLabels: one call by a member on case c1 with a labels value of      *)
(* every shape (None, empty, matching, not matching, other letter case),   *)
(* alone and with the speakers and key_only predicates.                    *)
(***************************************************************************)
LabelFilters ==
    {NoList, List(<<>>), List(<<"pokeon", "bujeonghaengwi">>), List(<<"yugi">>),
     List(<<"Pokeon">>)}

LabelFilterSpace ==
    {Filter(None, None, ls, sp, NoList, ko, 50, 0, "asc") :
        ls \in LabelFilters,
        sp \in {NoList, List(<<<<65>>>>)},
        ko \in BOOLEAN}

InitLabels ==
    /\ store \in SeqsUpTo({RawInfidelity, RawUndated, RawTagged, RawSameMinute, RawNoId},
                          MaxStore)
    /\ req \in {Request("c1", "u1", TRUE, f) : f \in LabelFilterSpace}
    /\ remaining = 1
    /\ Idle

SpecLabels == InitLabels /\ [][Next]_vars

(***************************************************************************)
(* SpecSort: one call by a member on case c1; the store holds events of    *)
(* equal date and time, of one day at two times, of unknown date, and two  *)
(* different records without identifier; sort_order is any str (the schema *)
(* does not restrict it).                                                  *)
(***************************************************************************)
SortPool ==
    {RawInfidelity, RawSameMinute, RawEvening, RawTagged, RawUndated, RawNoId,
     RawAnonymous}

SortFilterSpace ==
    {Filter(None, None, NoList, sp, NoList, ko, 50, 0, so) :
        sp \in {NoList, List(<<<<65>>>>)},
        ko \in BOOLEAN,
        so \in {"asc", "desc", "up"}}

InitSort ==
    /\ store \in SeqsUpTo(SortPool, MaxStore)
    /\ req \in {Request("c1", "u1", TRUE, f) : f \in SortFilterSpace}
    /\ remaining = 1
    /\ Idle

SpecSort == InitSort /\ [][Next]_vars

(***************************************************************************)
(* SpecApi: one HTTP request to the endpoint; event_types, sort_order,     *)
(* labels, speakers and the page are drawn from values the framework       *)
(* accepts and values it refuses.                                          *)
(***************************************************************************)
\* "audio, Bogus ,VIDEO"
ET_MIXED ==
    Str(<<97, 117, 100, 105, 111, 44, 32, 66, 111, 103, 117, 115, 32, 44, 86, 73, 68, 69, 79>>)

\* "bogus,unknown"
ET_INVALID == Str(<<98, 111, 103, 117, 115, 44, 117, 110, 107, 110, 111, 119, 110>>)

\* " Image "
ET_PADDED == Str(<<32, 73, 109, 97, 103, 101, 32>>)

\* "message,,incident"
ET_GAPS ==
    Str(<<109, 101, 115, 115, 97, 103, 101, 44, 44, 105, 110, 99, 105, 100, 101, 110, 116>>)

QueryPool ==
    {[k |-> "query", case_id |-> "c1", user_id |-> "u1", date_start |-> None,
      date_end |-> None, labels |-> ls, speakers |-> sp, event_types |-> et,
      key_only |-> FALSE, limit |-> page[1], offset |-> page[2], sort_order |-> so] :
        ls \in {None, Str(<<44>>), Str(<<54253, 50616>>)},
        sp \in {None, Str(<<65, 44, 32, 44, 66>>)},
        et \in {None, Str(<<>>), ET_MIXED, ET_INVALID, ET_PADDED, ET_GAPS},
        page \in {<<50, 0>>, <<0, 0>>},
        so \in {"asc", "desc", "up", "ASC"}}

InitApi ==
    /\ store \in SeqsUpTo({RawInfidelity, RawSameMinute, RawUndated, RawTagged}, MaxStore)
    /\ query \in QueryPool
    /\ req = Request("", "", FALSE, DefaultFilter)
    /\ pc = "api"
    /\ evidence_list = <<>>
    /\ all_events = <<>>
    /\ filtered_events = <<>>
    /\ outcome = "none"
    /\ result = <<>>
    /\ evidence_reads = 0
    /\ audit_calls = <<>>
    /\ audit_log = <<>>
    /\ audit_failed = FALSE
    /\ remaining = 0
    /\ prev = <<>>
    /\ threads = <<>>
    /\ draft = NoDraft

SpecApi == InitApi /\ [][NextApi]_vars

(***************************************************************************)
(* SpecThreads: NumThreads get_timeline calls in parallel, for the same or *)
(* for different cases, users and filters, on one evidence store.          *)
(***************************************************************************)
ThreadRequests ==
    {Request("c1", "u1", FALSE, DefaultFilter),
     Request("c1", "u1", TRUE, [DefaultFilter EXCEPT !.sort_order = "desc", !.limit = 1]),
     Request("c1", "u2", FALSE, DefaultFilter),
     Request("c2", "u1", TRUE, [DefaultFilter EXCEPT !.key_only = TRUE])}

InitThreads ==
    /\ store \in SeqsUpTo({RawInfidelity, RawUndated, RawIntSummary}, MaxStore)
    /\ threads \in [1..NumThreads -> {Thread(r) : r \in ThreadRequests}]
    /\ query = NoQuery
    /\ req = Request("", "", FALSE, DefaultFilter)
    /\ pc = "idle"
    /\ evidence_list = <<>>
    /\ all_events = <<>>
    /\ filtered_events = <<>>
    /\ outcome = "none"
    /\ result = <<>>
    /\ evidence_reads = 0
    /\ audit_calls = <<>>
    /\ audit_log = <<>>
    /\ audit_failed = FALSE
    /\ remaining = 0
    /\ prev = <<>>
    /\ draft = NoDraft

SpecThreads == InitThreads /\ [][NextThreads]_vars

(***************************************************************************)
(* The DraftService calls: either method, any case and user, each export   *)
(* format (the enum values docx and pdf, and a value outside the enum),    *)
(* with and without the optional libraries python-docx and reportlab.      *)
(***************************************************************************)
ExportFormats == {"docx", "pdf", "hwp"}

DraftCalls ==
    {DraftCall("preview", c, u, "docx", {"docx", "pdf"}) : c \in CaseIds, u \in UserIds}
    \cup {DraftCall("export", c, u, f, l) :
              c \in CaseIds, u \in UserIds, f \in ExportFormats, l \in SUBSET {"docx", "pdf"}}

InitDraft ==
    /\ store \in Stores
    /\ draft \in DraftCalls
    /\ req = Request("", "", FALSE, DefaultFilter)
    /\ remaining = 0
    /\ pc = "idle"
    /\ evidence_list = <<>>
    /\ all_events = <<>>
    /\ filtered_events = <<>>
    /\ outcome = "none"
    /\ result = <<>>
    /\ evidence_reads = 0
    /\ audit_calls = <<>>
    /\ audit_log = <<>>
    /\ audit_failed = FALSE
    /\ prev = <<>>
    /\ query = NoQuery
    /\ threads = <<>>

SpecDraft == InitDraft /\ [][NextDraft]_vars

(***************************************************************************)
(* SpecEvent: one call on a store of one record; the record varies one     *)
(* group of fields of a plain record at a time.                            *)
(***************************************************************************)
\* {evidence_id: "e1", timestamp: "2024-01-10T09:00:00Z", type: "text",
\*  ai_summary: <20 characters>, filename: <8 characters>}
PlainRaw ==
    [EmptyRaw EXCEPT !.evidence_id = Str(Id(1)),
                     !.timestamp = IsoTs(2024, 1, 10, 9, 0, "Z"),
                     !.type = StrType("text"),
                     !.ai_summary = Text("ai_summary", 20),
                     !.filename = Text("filename", 8)]

\* the type values: no key, None, the keys of TYPE_MAPPING, the other values of
\* TimelineEventType, upper-case and capitalised spellings, an unknown type
TypeNames ==
    {"text", "image", "audio", "video", "pdf", "document", "message", "incident",
     "AUDIO", "Text", "PDF", "hwp"}

TypeValues == {NoType, NoneType} \cup {StrType(v) : v \in TypeNames}

TypeRecords == {[PlainRaw EXCEPT !.type = ty] : ty \in TypeValues}

\* the label lists: the keys of SIGNIFICANCE_WEIGHTS, 기타 (no key) and 폭행_상해
\* (no key; the key 폭행 is a part of it)
ScoreLabels == DOMAIN SIGNIFICANCE_WEIGHTS \cup {"gita", "pokhaeng_sanghae"}

LabelRecords ==
    {[PlainRaw EXCEPT !.labels = ListLabels(items)] : items \in SeqsUpTo(ScoreLabels, MaxLabels)}

\* the identifier fields: no key, None, the empty str, a str
IdRecords ==
    {[PlainRaw EXCEPT !.evidence_id = eid, !.id = id] :
        eid \in {Absent, None, Str(<<>>), Str(Id(1))},
        id \in {Absent, None, Str(<<>>), Str(Id(3))}}

\* the timestamp fields: no key, None, "", a str fromisoformat rejects, an int,
\* ISO-8601 strs (with Z, with the offset +09:00, naive) and datetime objects;
\* 23:30+09:00 and 14:30Z of 2024-03-05 are one instant, as are 00:30+09:00 of
\* 2024-03-06 and 15:30Z of 2024-03-05
TimestampValues ==
    {NoTs, NoneTs, EmptyTs, BadTs, IntTs,
     IsoTs(2024, 3, 5, 14, 30, "Z"), IsoTs(2024, 3, 5, 23, 30, "+09:00"),
     IsoTs(2024, 3, 5, 15, 30, "Z"), IsoTs(2024, 3, 6, 0, 30, "+09:00"),
     IsoTs(2024, 3, 5, 14, 30, "naive"),
     DatetimeTs(2024, 3, 5, 14, 30, "naive"), DatetimeTs(2024, 3, 5, 23, 30, "+09:00")}

TimestampRecords ==
    {[PlainRaw EXCEPT !.timestamp = ts, !.created_at = created] :
        ts \in TimestampValues,
        created \in {NoTs, NoneTs, BadTs, IsoTs(2024, 2, 1, 0, 0, "Z")}}

\* the description sources: no key, None, "", strs of 20, 100, 101, 150, 8 and
\* 120 characters
DescriptionRecords ==
    {[PlainRaw EXCEPT !.ai_summary = ai, !.summary = su, !.filename = fn] :
        ai \in {NoText, NoneText, EmptyText, Text("ai_summary", 20),
                Text("ai_summary", 100), Text("ai_summary", 101)},
        su \in {NoText, NoneText, EmptyText, Text("summary", 150)},
        fn \in {NoText, NoneText, EmptyText, Text("filename", 8), Text("filename", 120)}}

\* the shapes of the labels value and of article_840_tags.categories: no key,
\* None, a list, and an iterable that is no list (a tuple, or the set a string
\* set of the store is read as)
LabelShapeRecords ==
    {[PlainRaw EXCEPT !.labels = ls, !.article_840_tags = tags] :
        ls \in {NoLabels, NoneLabels, ListLabels(<<>>), ListLabels(<<"pokeon">>),
                TupleLabels(<<"pokhaeng">>), TupleLabels(<<"gita">>)},
        tags \in {NoTags, OtherTags, DictTags(ListLabels(<<"yugi">>)),
                  DictTags(TupleLabels(<<"hakdae">>))}}

EventSpace ==
    TypeRecords \cup LabelRecords \cup IdRecords \cup TimestampRecords
    \cup DescriptionRecords \cup LabelShapeRecords

InitEvent ==
    /\ store \in {<<r>> : r \in EventSpace}
    /\ req = Request("c1", "u1", FALSE, DefaultFilter)
    /\ remaining = 1
    /\ Idle

SpecEvent == InitEvent /\ [][Next]_vars

(***************************************************************************)
(* SpecEmptyLists: requests through the endpoint whose list parameters are *)
(* omitted, hold no usable token or hold one, and direct get_timeline      *)
(* calls whose TimelineFilter holds None, an empty list or a list of one.  *)
(***************************************************************************)
\* " , "
BLANK_TOKENS == Str(<<32, 44, 32>>)

EmptyListQueries ==
    {[k |-> "query", case_id |-> "c1", user_id |-> "u1", date_start |-> None,
      date_end |-> None, labels |-> ls, speakers |-> sp, event_types |-> et,
      key_only |-> FALSE, limit |-> page[1], offset |-> page[2], sort_order |-> "asc"] :
        ls \in {None, Str(<<44>>), Str(<<54253, 50616>>)},
        sp \in {None, BLANK_TOKENS, Str(<<65>>)},
        et \in {None, ET_INVALID, BLANK_TOKENS, ET_PADDED},
        page \in {<<50, 0>>, <<0, 0>>}}

EmptyListRequests ==
    {Request("c1", "u1", TRUE,
             [DefaultFilter EXCEPT !.labels = ls, !.speakers = sp, !.event_types = et]) :
        ls \in {NoList, List(<<>>), List(<<"pokeon">>)},
        sp \in {NoList, List(<<>>), List(<<<<65>>>>)},
        et \in {NoList, List(<<>>), List(<<"image">>)}}

InitEmptyLists ==
    /\ store \in SeqsUpTo({RawInfidelity, RawSameMinute, RawUndated, RawTagged}, MaxStore)
    /\ \/ /\ query \in EmptyListQueries
          /\ req = Request("", "", FALSE, DefaultFilter)
          /\ pc = "api"
          /\ remaining = 0
       \/ /\ query = NoQuery
          /\ req \in EmptyListRequests
          /\ pc = "idle"
          /\ remaining = 1
    /\ evidence_list = <<>>
    /\ all_events = <<>>
    /\ filtered_events = <<>>
    /\ outcome = "none"
    /\ result = <<>>
    /\ evidence_reads = 0
    /\ audit_calls = <<>>
    /\ audit_log = <<>>
    /\ audit_failed = FALSE
    /\ prev = <<>>
    /\ threads = <<>>
    /\ draft = NoDraft

SpecEmptyLists == InitEmptyLists /\ [][NextAnyCaller]_vars

(***************************************************************************)
(* Properties.                                                             *)
(***************************************************************************)
\* the request is for an existing case by a member of it
Authorized == req.case_id \in ExistingCases /\ <<req.case_id, req.user_id>> \in Memberships

\* schemas/timeline.py lines 55-56: limit in 1..200, offset >= 0
ValidFilter(f) == f.limit \in 1..200 /\ f.offset >= 0

Finished == pc = "done"

\* _build_events has run in this call
Normalized == pc \in {"apply_filters", "log", "build_result", "done"} /\ evidence_reads = 1

\* _apply_filters has run in this call
Filtered == pc \in {"log", "build_result", "done"} /\ evidence_reads = 1

\* a TimelineResult without generated_at
SansGeneratedAt(r) == [x \in (DOMAIN r) \ {"generated_at"} |-> r[x]]

\* C1: the result of get_timeline for a valid filter has has_more true exactly
\* when filtered_count > offset + limit, a page of min(limit, max(0,
\* filtered_count - offset)) events, and filtered_count >= the page length.
C1_PaginationOfResult ==
    (Finished /\ Authorized /\ ValidFilter(EffectiveFilter(req))) =>
        /\ result # <<>>
        /\ LET r == result[1]
               f == EffectiveFilter(req)
           IN  /\ r.has_more = (r.filtered_count > f.offset + f.limit)
               /\ Len(r.events) = Min(f.limit, Max(0, r.filtered_count - f.offset))
               /\ r.filtered_count >= Len(r.events)

\* The page and has_more that _build_result computes (lines 362-365) satisfy
\* the arithmetic of C1 on every filtered sequence the call produces.
PaginationOfFields ==
    Filtered =>
        LET f == EffectiveFilter(req)
            n == Len(filtered_events)
        IN  /\ HasMore(filtered_events, f) = (n > f.offset + f.limit)
            /\ Len(Paginated(filtered_events, f)) = Min(f.limit, Max(0, n - f.offset))

\* C2: every event produced by normalization has significance in 1..5 and is
\* key evidence exactly when its significance is at least 4.
C2_SignificanceRange ==
    \A i \in 1..Len(all_events) :
        /\ all_events[i].significance \in 1..5
        /\ all_events[i].is_key_evidence = (all_events[i].significance >= 4)

\* C2 witness: normalization produced an event of significance exactly 4 (key
\* evidence) from a list of two labels.
C2_Witness ==
    /\ Normalized
    /\ \E i \in 1..Len(all_events) :
          /\ all_events[i].significance = 4
          /\ all_events[i].is_key_evidence
          /\ Len(all_events[i].labels) = 2

\* C3 as stated: for a user who is no member of the case the call ends in the
\* access-denied error, with no result, no evidence read and no audit entry.
C3_NonMemberDenied ==
    (Finished /\ <<req.case_id, req.user_id>> \notin Memberships) =>
        /\ outcome = "PermissionError"
        /\ result = <<>>
        /\ evidence_reads = 0
        /\ audit_calls = <<>>
        /\ audit_log = <<>>

\* C3 amended: for an existing case and a user who is no member of it, the
\* call ends in the access-denied error with no result, and at no point of the
\* call is the evidence store read or an audit entry written.
C3_NonMemberOfExistingCaseDenied ==
    (req.case_id \in ExistingCases /\ <<req.case_id, req.user_id>> \notin Memberships) =>
        /\ result = <<>>
        /\ evidence_reads = 0
        /\ audit_calls = <<>>
        /\ audit_log = <<>>
        /\ outcome \in {"none", "PermissionError"}
        /\ Finished => outcome = "PermissionError"

\* C3 witness: the call of non-member u2 on the existing case c1 has ended.
C3_Witness ==
    /\ Finished
    /\ req.case_id = "c1"
    /\ req.user_id = "u2"
    /\ outcome = "PermissionError"

\* C4: for a case that does not exist the call ends in the not-found error,
\* member or not, never in access-denied, and at no point of the call is the
\* evidence store read or an audit entry written.
C4_MissingCaseNotFound ==
    req.case_id \notin ExistingCases =>
        /\ result = <<>>
        /\ evidence_reads = 0
        /\ audit_calls = <<>>
        /\ audit_log = <<>>
        /\ outcome \in {"none", "NotFoundError"}
        /\ Finished => outcome = "NotFoundError"

\* C4 witness: the call of u2, who has no membership row for the missing case
\* c2, has ended in the not-found error.
C4_Witness ==
    /\ Finished
    /\ req.case_id = "c2"
    /\ <<req.case_id, req.user_id>> \notin Memberships
    /\ outcome = "NotFoundError"

\* C5: for an existing case and a member, get_timeline returns a
\* TimelineResult and raises no error, whatever the evidence store holds.
C5_AuthorizedCallReturns ==
    (Finished /\ Authorized /\ ValidFilter(EffectiveFilter(req))) =>
        /\ outcome = "result"
        /\ result # <<>>

\* the records of a fetch that normalize, in the order of the fetch
Successes(evidence) ==
    LET normalizes(r) == ~NormalizationFails(r) IN SelectSeq(evidence, normalizes)

\* C6: a record whose normalization fails is dropped and every other record
\* of the fetch is normalized: the events are the complete events of the
\* records that normalize, one each and in order, and the filtered sequence
\* and every field _build_result computes are those of the fetch without the
\* failing records.
C6_FailedRecordsDropped ==
    Normalized =>
        LET good == Successes(evidence_list)
            f == EffectiveFilter(req)
        IN  /\ Len(all_events) = Len(good)
            /\ \A i \in 1..Len(all_events) :
                  all_events[i] = EvidenceToEvent(good[i], req.case_id)
            /\ Filtered =>
                  /\ filtered_events = ApplyFilters(BuildEvents(good, req.case_id), f)
                  /\ ResultFields(req.case_id, all_events, filtered_events, f)
                       = ResultFields(req.case_id, BuildEvents(good, req.case_id),
                                      ApplyFilters(BuildEvents(good, req.case_id), f), f)

\* C6 witness: the fetch held a failing record followed by one that
\* normalizes, and exactly the second became an event.
C6_Witness ==
    /\ Normalized
    /\ Len(evidence_list) = 2
    /\ NormalizationFails(evidence_list[1])
    /\ ~NormalizationFails(evidence_list[2])
    /\ all_events = <<EvidenceToEvent(evidence_list[2], req.case_id)>>

AuditCallsOfCall ==
    /\ Len(audit_calls) <= 1
    /\ (pc \in {"build_result", "done"} /\ evidence_reads = 1) =>
          audit_calls = <<AuditEntry(req.case_id, req.user_id)>>

\* C8: when the audit-log write fails, get_timeline still returns, and its
\* result equals (generated_at aside) the one of the same call with a
\* successful audit write.
C8_AuditFailureNotSurfaced ==
    (Finished /\ Authorized /\ ValidFilter(EffectiveFilter(req)) /\ audit_failed) =>
        /\ outcome = "result"
        /\ result # <<>>
        /\ (prev # <<>> /\ ~prev[1].audit_failed /\ prev[1].result # <<>>) =>
              SansGeneratedAt(result[1]) = SansGeneratedAt(prev[1].result[1])

\* C9: two get_timeline calls with the same case, user and filter on an
\* unchanged store both return a TimelineResult, the same in every field
\* except generated_at.
C9_RepeatedCallSameResult ==
    (Finished /\ Authorized /\ ValidFilter(EffectiveFilter(req)) /\ prev # <<>>) =>
        /\ outcome = "result"
        /\ prev[1].outcome = "result"
        /\ SansGeneratedAt(result[1]) = SansGeneratedAt(prev[1].result[1])

\* A repeated call ends as the call before it did, whether or not either
\* audit write failed.
RepeatedCallSameOutcome ==
    (Finished /\ prev # <<>>) => (outcome = prev[1].outcome /\ result = prev[1].result)

\* C10 as stated: with date_start or date_end set (not None), no event with
\* the unknown-date sentinel is in the filtered sequence.
C10_BoundSetExcludesUnknownDate ==
    LET f == EffectiveFilter(req)
    IN  (Filtered /\ (f.date_start.k = "str" \/ f.date_end.k = "str")) =>
            \A i \in 1..Len(filtered_events) : filtered_events[i].date # UNKNOWN_DATE

\* C10 amended: with date_start or date_end set to a non-empty string, no
\* event with the unknown-date sentinel (no parsed timestamp) is in the
\* filtered sequence, whatever the other filter fields are.
C10_NonEmptyBoundExcludesUnknownDate ==
    LET f == EffectiveFilter(req)
    IN  (Filtered /\ (TruthyStr(f.date_start) \/ TruthyStr(f.date_end))) =>
            \A i \in 1..Len(filtered_events) :
                /\ filtered_events[i].date # UNKNOWN_DATE
                /\ filtered_events[i].timestamp.present

\* C10 witness: only date_start is set, the full set holds an event of
\* unknown date and a dated one, and the filter kept an event.
C10_Witness ==
    LET f == EffectiveFilter(req)
    IN  /\ Filtered
        /\ TruthyStr(f.date_start)
        /\ f.date_end = None
        /\ \E i \in 1..Len(all_events) : all_events[i].date = UNKNOWN_DATE
        /\ filtered_events # <<>>

\* the event and the filter's label list have a label in common (equal str)
SharesLabel(e, f) == Range(e.labels) \cap Range(f.labels.items) # {}

\* the event passes every test of _apply_filters other than the labels test
PassesOtherThanLabels(e, f) ==
    /\ PassDateStart(e, f)
    /\ PassDateEnd(e, f)
    /\ PassSpeakers(e, f)
    /\ PassEventTypes(e, f)
    /\ PassKeyOnly(e, f)

\* C11 as stated: with labels set in the filter (not None), an event of the
\* full set is in the filtered sequence exactly when it shares a label with
\* the filter's list (and passes the other tests), and an event with no
\* labels is never in it.
C11_LabelsSetIntersection ==
    LET f == EffectiveFilter(req)
    IN  (Filtered /\ f.labels.k = "list") =>
            /\ \A i \in 1..Len(all_events) :
                  (all_events[i] \in Range(filtered_events))
                      = (SharesLabel(all_events[i], f) /\ PassesOtherThanLabels(all_events[i], f))
            /\ \A i \in 1..Len(filtered_events) : filtered_events[i].labels # <<>>

\* C11 amended: with labels set to a non-empty list, an event of the full
\* set is in the filtered sequence exactly when it shares a label (equal
\* str) with the filter's list and passes the other tests; an event with no
\* labels is never in it.
C11_NonEmptyLabelsIntersection ==
    LET f == EffectiveFilter(req)
    IN  (Filtered /\ TruthyList(f.labels)) =>
            /\ \A i \in 1..Len(all_events) :
                  (all_events[i] \in Range(filtered_events))
                      = (SharesLabel(all_events[i], f) /\ PassesOtherThanLabels(all_events[i], f))
            /\ \A i \in 1..Len(filtered_events) : filtered_events[i].labels # <<>>

\* C11 witness: only the labels test is active, with two labels; the full
\* set holds an event with no labels and an event with two labels of which
\* one is in the filter's list; the second is kept and the first is not.
C11_Witness ==
    LET f == EffectiveFilter(req)
    IN  /\ Filtered
        /\ Len(f.labels.items) = 2
        /\ f.speakers = NoList
        /\ ~f.key_only
        /\ Len(all_events) = 2
        /\ all_events[1].labels = <<>>
        /\ Len(all_events[2].labels) = 2
        /\ Cardinality(Range(all_events[2].labels) \cap Range(f.labels.items)) = 1
        /\ filtered_events = <<all_events[2]>>

\* the fields of a TimelineResult that describe the full set
Statistics(r) ==
    [total_count |-> r.total_count, date_range |-> r.date_range,
     events_by_type |-> r.events_by_type, events_by_label |-> r.events_by_label,
     key_events_count |-> r.key_events_count]

\* C12: the result of get_timeline has the total_count, date_range,
\* events_by_type, events_by_label and key_events_count of the full
\* normalized set of the store: the ones the call without a filter computes,
\* whatever the filter, sort order, offset and limit of the request.
C12_StatisticsOfResult ==
    (Finished /\ Authorized /\ ValidFilter(EffectiveFilter(req))) =>
        /\ outcome = "result"
        /\ result # <<>>
        /\ LET full == BuildEvents(EvidenceByCase(req.case_id), req.case_id)
           IN  Statistics(result[1])
                 = Statistics(ResultFields(req.case_id, full,
                                           ApplyFilters(full, DefaultFilter), DefaultFilter))

\* The statistics _build_result computes (lines 367-398) are those of the
\* full set: the same for the filter of the request, for the default filter
\* and for every filter of FilterPool.
StatisticsOfFields ==
    Filtered =>
        LET full == BuildEvents(EvidenceByCase(req.case_id), req.case_id)
            mine == ResultFields(req.case_id, all_events, filtered_events,
                                 EffectiveFilter(req))
        IN  \A f \in FilterPool :
                Statistics(mine)
                  = Statistics(ResultFields(req.case_id, full, ApplyFilters(full, f), f))

\* the event satisfies every active predicate of the filter; a predicate is
\* active when its field is a non-empty str, a non-empty list, or key_only
\* True; an event of unknown date has no date to compare
SatisfiesAll(e, f) ==
    /\ (f.date_start.k = "str" /\ f.date_start.s # <<>>) =>
          (e.date # UNKNOWN_DATE /\ ~StrLT(e.date, f.date_start.s))
    /\ (f.date_end.k = "str" /\ f.date_end.s # <<>>) =>
          (e.date # UNKNOWN_DATE /\ ~StrLT(f.date_end.s, e.date))
    /\ (f.labels.k = "list" /\ f.labels.items # <<>>) =>
          (\E i \in 1..Len(e.labels), j \in 1..Len(f.labels.items) :
              e.labels[i] = f.labels.items[j])
    /\ (f.speakers.k = "list" /\ f.speakers.items # <<>>) =>
          (e.speaker.k = "str"
           /\ \E j \in 1..Len(f.speakers.items) : e.speaker.s = f.speakers.items[j])
    /\ (f.event_types.k = "list" /\ f.event_types.items # <<>>) =>
          (\E j \in 1..Len(f.event_types.items) : e.event_type = f.event_types.items[j])
    /\ f.key_only => e.is_key_evidence

\* the events of a sequence that satisfy every active predicate, in order
AllSatisfying(events, f) ==
    LET test(e) == SatisfiesAll(e, f) IN SelectSeq(events, test)

\* number of positions of a sequence that hold the value
Occurrences(x, s) == Cardinality({i \in 1..Len(s) : s[i] = x})

\* C13: the filtered sequence holds exactly the events of the full set that
\* satisfy every active predicate at once (date >= date_start and date <=
\* date_end inclusive on the display date str, a shared label, speaker in
\* speakers, event_type in event_types, is_key_evidence under key_only), each
\* as often as the full set holds it; it is the sorted single-pass selection
\* by the conjunction, so the order of the tests does not matter; and
\* filtered_count <= total_count.
C13_FilteredIsConjunction ==
    Filtered =>
        LET f == EffectiveFilter(req)
            fields == ResultFields(req.case_id, all_events, filtered_events, f)
        IN  /\ filtered_events = Sorted(AllSatisfying(all_events, f), f.sort_order = "desc")
            /\ \A e \in Range(all_events) \cup Range(filtered_events) :
                  Occurrences(e, filtered_events)
                    = IF SatisfiesAll(e, f) THEN Occurrences(e, all_events) ELSE 0
            /\ Len(filtered_events) <= Len(all_events)
            /\ fields.filtered_count <= fields.total_count

\* C13 witness: date_start and date_end both equal to the date of two events
\* of the full set, labels, speakers and event_types active too; one of the
\* two events passes all five tests and is kept, the other is not.
C13_Witness ==
    LET f == EffectiveFilter(req)
    IN  /\ Filtered
        /\ TruthyStr(f.date_start)
        /\ f.date_end = f.date_start
        /\ TruthyList(f.labels) /\ TruthyList(f.speakers) /\ TruthyList(f.event_types)
        /\ Len(all_events) = 2
        /\ all_events[1].date = f.date_end.s
        /\ all_events[2].date = f.date_end.s
        /\ Len(filtered_events) = 1

\* a sequence back to front
ReverseSeq(s) == [i \in 1..Len(s) |-> s[Len(s) + 1 - i]]

\* the (date, time, event_id) of an event, as displayed
DisplayKey(e) == <<e.date, e.time, e.event_id>>

\* C14: with sort_order asc the filtered sequence is ordered by (date, time,
\* event_id); of two dated events of equal date and time and different
\* event_id the one of smaller event_id comes first; and when the event ids
\* are pairwise different the sequence is the same for the store read in the
\* opposite order.
C14_AscendingByDateTimeId ==
    LET f == EffectiveFilter(req)
    IN  (Filtered /\ f.sort_order = "asc") =>
            /\ \A i, j \in 1..Len(filtered_events) :
                  i < j =>
                    LET a == filtered_events[i]
                        b == filtered_events[j]
                    IN  /\ ~TupleLT(DisplayKey(b), DisplayKey(a))
                        /\ (a.date # UNKNOWN_DATE /\ a.date = b.date /\ a.time = b.time
                              /\ a.event_id # b.event_id) => StrLT(a.event_id, b.event_id)
            /\ (\A i, j \in 1..Len(all_events) :
                    i # j => all_events[i].event_id # all_events[j].event_id) =>
                  filtered_events
                    = ApplyFilters(BuildEvents(ReverseSeq(evidence_list), req.case_id), f)

\* C14 witness: the store returned two dated records of equal date and time,
\* the one of greater event_id first; ascending, both are kept and the one of
\* smaller event_id comes first.
C14_Witness ==
    /\ Filtered
    /\ EffectiveFilter(req).sort_order = "asc"
    /\ Len(all_events) = 2
    /\ all_events[1].date # UNKNOWN_DATE
    /\ all_events[1].date = all_events[2].date
    /\ all_events[1].time = all_events[2].time
    /\ StrLT(all_events[2].event_id, all_events[1].event_id)
    /\ filtered_events = <<all_events[2], all_events[1]>>

\* C15: in the filtered sequence events of unknown date never interleave
\* with dated events: ascending (every sort_order but desc), every event of
\* unknown date comes after every dated event; descending, before.
C15_UnknownDateNeverInterleaves ==
    LET f == EffectiveFilter(req)
    IN  Filtered =>
            \A i, j \in 1..Len(filtered_events) :
                (filtered_events[i].date = UNKNOWN_DATE
                 /\ filtered_events[j].date # UNKNOWN_DATE) =>
                    IF f.sort_order = "desc" THEN i < j ELSE j < i

\* C15 witness: descending, the store returned a dated record before one of
\* unknown date, and the filtered sequence holds the event of unknown date
\* first and the dated event second.
C15_Witness ==
    /\ Filtered
    /\ EffectiveFilter(req).sort_order = "desc"
    /\ Len(all_events) = 2
    /\ all_events[1].date # UNKNOWN_DATE
    /\ all_events[2].date = UNKNOWN_DATE
    /\ filtered_events = <<all_events[2], all_events[1]>>

\* C16: for the full set and the filter of the call, the filtered sequence
\* for sort_order desc is the exact reverse of the one for sort_order asc.
C16_DescIsReverseOfAsc ==
    Filtered =>
        LET f == EffectiveFilter(req)
        IN  ApplyFilters(all_events, [f EXCEPT !.sort_order = "desc"])
              = ReverseSeq(ApplyFilters(all_events, [f EXCEPT !.sort_order = "asc"]))

\* When no two events of the full set have the same event_id, the sequence
\* for desc is the reverse of the one for asc.
DescIsReverseForDistinctIds ==
    (Filtered /\ \A i, j \in 1..Len(all_events) :
                    i # j => all_events[i].event_id # all_events[j].event_id) =>
        LET f == EffectiveFilter(req)
        IN  ApplyFilters(all_events, [f EXCEPT !.sort_order = "desc"])
              = ReverseSeq(ApplyFilters(all_events, [f EXCEPT !.sort_order = "asc"]))

\* the sum of the values of a function over a set of its keys
RECURSIVE SumOver(_, _)
SumOver(counts, keys) ==
    IF keys = {} THEN 0
    ELSE LET k == CHOOSE x \in keys : TRUE
         IN  counts[k] + SumOver(counts, keys \ {k})

\* number of label entries of a sequence of events
RECURSIVE LabelEntries(_)
LabelEntries(events) ==
    IF events = <<>> THEN 0 ELSE Len(Head(events).labels) + LabelEntries(Tail(events))

\* the counts r are the counts of the events of the sequence: by type, by
\* label entry, and of key evidence
CountsOf(r, events) ==
    /\ r.total_count = Len(events)
    /\ \A t \in TimelineEventType :
          Cardinality({i \in 1..Len(events) : events[i].event_type = t})
            = IF t \in DOMAIN r.events_by_type THEN r.events_by_type[t] ELSE 0
    /\ SumOver(r.events_by_type, DOMAIN r.events_by_type) = r.total_count
    /\ \A l \in DOMAIN SIGNIFICANCE_WEIGHTS \cup LabelUniverse \cup DOMAIN r.events_by_label :
          Cardinality({<<i, n>> \in (1..Len(events)) \X (1..(MaxLabels + 1)) :
                          n <= Len(events[i].labels) /\ events[i].labels[n] = l})
            = IF l \in DOMAIN r.events_by_label THEN r.events_by_label[l] ELSE 0
    /\ SumOver(r.events_by_label, DOMAIN r.events_by_label) = LabelEntries(events)
    /\ r.key_events_count = Cardinality({i \in 1..Len(events) : events[i].is_key_evidence})

\* C17: in the result of get_timeline events_by_type[t] is the number of
\* events of type t of the full set (the values sum to total_count),
\* events_by_label[l] the number of label entries equal to l over the full
\* set (the values sum to the number of label entries), and
\* key_events_count the number of events of the full set with
\* is_key_evidence.
C17_CountsOfResult ==
    (Finished /\ Authorized /\ ValidFilter(EffectiveFilter(req))) =>
        /\ outcome = "result"
        /\ result # <<>>
        /\ CountsOf(result[1], BuildEvents(EvidenceByCase(req.case_id), req.case_id))

\* The counts _build_result computes (lines 377-387) are those of the full
\* set, for every full set and filter of the call.
CountsOfFields ==
    Filtered =>
        CountsOf(ResultFields(req.case_id, all_events, filtered_events, EffectiveFilter(req)),
                 all_events)

\* the members of TimelineEventType named by the tokens of a query value
\* that are valid values once trimmed and lower-cased
ValidEventTypes(value) ==
    IF value.k # "str" THEN {}
    ELSE {EventTypeByValue[Lower(Strip(tok))] :
            tok \in {x \in Range(Split(value.s)) : Lower(Strip(x)) \in DOMAIN EventTypeByValue}}

\* the event passes every test of _apply_filters other than the type test
PassesOtherThanTypes(e, f) ==
    /\ PassDateStart(e, f)
    /\ PassDateEnd(e, f)
    /\ PassLabels(e, f)
    /\ PassSpeakers(e, f)
    /\ PassKeyOnly(e, f)

\* C18: invalid tokens of the event_types query value are dropped: the
\* request is not refused for them, the filter handed to the service holds
\* exactly the types named by the valid tokens (trimmed, any letter case),
\* none when no token is valid, and the filtered sequence holds exactly the
\* events of those types (that pass the other tests).
C18_InvalidEventTypesDropped ==
    (query # NoQuery /\ pc # "api" /\ ValidQuery(query)) =>
        LET valid == ValidEventTypes(query.event_types)
            f == EffectiveFilter(req)
        IN  /\ outcome # "RequestValidationError"
            /\ IF valid = {} THEN f.event_types = NoList
               ELSE f.event_types.k = "list" /\ Range(f.event_types.items) = valid
            /\ Filtered =>
                  \A i \in 1..Len(all_events) :
                      (all_events[i] \in Range(filtered_events))
                        = (/\ valid # {} => all_events[i].event_type \in valid
                           /\ PassesOtherThanTypes(all_events[i], f))

\* C18 witness: the event_types value holds an invalid token and a valid one
\* written in upper case; the service filtered a full set of two events and
\* kept the one whose type a valid token names.
C18_Witness ==
    /\ query # NoQuery
    /\ Filtered
    /\ query.event_types.k = "str"
    /\ \E x, y \in Range(Split(query.event_types.s)) :
          /\ Lower(Strip(x)) \notin DOMAIN EventTypeByValue
          /\ Lower(Strip(y)) \in DOMAIN EventTypeByValue
          /\ y \notin DOMAIN EventTypeByValue
    /\ Len(all_events) = 2
    /\ Len(filtered_events) = 1
    /\ filtered_events[1].event_type \in ValidEventTypes(query.event_types)

\* C19: a request whose sort_order is neither asc nor desc is not refused:
\* the service is called and sorts ascending.
C19_InvalidSortOrderAscending ==
    (query # NoQuery /\ pc # "api" /\ query.sort_order \notin {"asc", "desc"}
       /\ query.limit \in 1..200 /\ query.offset >= 0) =>
        /\ outcome # "RequestValidationError"
        /\ Filtered =>
              filtered_events
                = ApplyFilters(all_events, [EffectiveFilter(req) EXCEPT !.sort_order = "asc"])

\* Called directly with a filter whose sort_order is neither asc nor desc,
\* the service sorts ascending (line 337: reverse only for desc).
ServiceSortsOtherTokenAscending ==
    (Filtered /\ query = NoQuery /\ EffectiveFilter(req).sort_order # "desc") =>
        filtered_events
          = ApplyFilters(all_events, [EffectiveFilter(req) EXCEPT !.sort_order = "asc"])

\* The endpoint refuses every request whose sort_order is neither asc nor
\* desc before the service is called.
InvalidSortOrderRefused ==
    (query # NoQuery /\ pc # "api" /\ query.sort_order \notin {"asc", "desc"}) =>
        /\ pc = "done"
        /\ outcome = "RequestValidationError"
        /\ evidence_reads = 0
        /\ audit_calls = <<>>

\* the fields _build_result computes for a request that runs alone
AloneFields(r) ==
    LET full == BuildEvents(EvidenceByCase(r.case_id), r.case_id)
        f == EffectiveFilter(r)
    IN  ResultFields(r.case_id, full, ApplyFilters(full, f), f)

\* how get_timeline ends for a request that runs alone
AloneOutcome(r) ==
    IF ~CaseExists(r.case_id) THEN "NotFoundError"
    ELSE IF ~HasAccess(r.case_id, r.user_id) THEN "PermissionError"
    ELSE IF TimelineResultAccepts(AloneFields(r)) THEN "result"
    ELSE "ValidationError"

\* C20: under every interleaving of parallel get_timeline calls, each call
\* for an existing case by a member returns the result it returns when it
\* runs alone on the same store (generated_at aside), having made its own
\* single audit-log call.
C20_ParallelCallsAsAlone ==
    \A t \in DOMAIN threads :
        LET me == threads[t]
            r == me.req
        IN  (me.pc = "done" /\ r.case_id \in ExistingCases
               /\ <<r.case_id, r.user_id>> \in Memberships) =>
                /\ me.outcome = "result"
                /\ me.result # <<>>
                /\ SansGeneratedAt(me.result[1]) = SansGeneratedAt(AloneFields(r))
                /\ me.audit_calls = <<AuditEntry(r.case_id, r.user_id)>>

\* Under every interleaving the locals of each parallel call are those of the
\* call running alone, it ends as it ends alone, it makes one audit-log call
\* of its own once it has passed the access check, and the audit log holds
\* one entry for each call whose write did not raise.
ParallelCallsIndependent ==
    /\ \A t \in DOMAIN threads :
          LET me == threads[t]
              r == me.req
              f == EffectiveFilter(r)
              full == BuildEvents(EvidenceByCase(r.case_id), r.case_id)
              served == me.pc = "done" /\ me.outcome \in {"result", "ValidationError"}
          IN  /\ (me.pc \in {"build_events", "apply_filters", "log", "build_result"}
                    \/ served) => me.evidence_list = EvidenceByCase(r.case_id)
              /\ (me.pc \in {"apply_filters", "log", "build_result"} \/ served) =>
                    me.all_events = full
              /\ (me.pc \in {"log", "build_result"} \/ served) =>
                    me.filtered_events = ApplyFilters(full, f)
              /\ me.pc = "done" => me.outcome = AloneOutcome(r)
              /\ me.result = IF me.outcome = "result" THEN <<AloneFields(r)>> ELSE <<>>
              /\ me.audit_calls
                    = IF me.pc = "build_result" \/ served
                      THEN <<AuditEntry(r.case_id, r.user_id)>> ELSE <<>>
    /\ Len(audit_log)
          = Cardinality({t \in DOMAIN threads :
                            threads[t].audit_calls # <<>> /\ ~threads[t].audit_failed})
    /\ \A i \in 1..Len(audit_log) :
          \E t \in DOMAIN threads :
              /\ threads[t].audit_calls = <<audit_log[i]>>
              /\ ~threads[t].audit_failed

\* Every parallel call has ended past the audit step and every audit write
\* went through.
ParallelCallsInterleaved ==
    /\ threads # <<>>
    /\ \A t \in DOMAIN threads : threads[t].pc = "done" /\ threads[t].audit_calls # <<>>
    /\ Len(audit_log) = NumThreads

(***************************************************************************)
(* DraftService: validation before work.                                   *)
(***************************************************************************)
\* the call ended in one of the three validation errors: the NotFoundError or the
\* PermissionError of either method, or the empty-evidence ValidationError of
\* generate_draft_preview
DraftValidationError ==
    /\ draft.op # "none" /\ draft.pc = "done"
    /\ \/ draft.outcome \in {"NotFoundError", "PermissionError"}
       \/ draft.outcome = "ValidationError" /\ draft.raised_in = "generate_draft_preview"

\* the validation error the arguments of the call ask for, "none" when they are valid
DraftExpectedError ==
    IF ~CaseExists(draft.case_id) THEN "NotFoundError"
    ELSE IF ~HasAccess(draft.case_id, draft.user_id) THEN "PermissionError"
    ELSE IF EvidenceByCase(draft.case_id) = <<>> THEN "ValidationError"
    ELSE "none"

\* C21: generate_draft_preview and export_draft validate before doing any work: a
\* finished call ended in NotFoundError exactly when the case does not exist, else in
\* PermissionError exactly when the user is not a member, else in the ValidationError
\* of generate_draft_preview exactly when the case has no evidence; and a call that
\* ended in one of these errors made no vector search and no completion call.
C21_ValidateBeforeWork ==
    /\ (draft.op # "none" /\ draft.pc = "done") =>
           /\ DraftExpectedError # "none" =>
                  DraftValidationError /\ draft.outcome = DraftExpectedError
           /\ DraftValidationError => draft.outcome = DraftExpectedError
    /\ DraftValidationError => draft.rag_calls = 0 /\ draft.llm_calls = 0
    /\ (draft.op # "none" /\ draft.rag_calls + draft.llm_calls > 0) =>
           DraftExpectedError = "none"

\* an export_draft call on an existing case of a member ended in the empty-evidence
\* ValidationError without a search or a completion
C21_Witness ==
    /\ draft.op = "export" /\ draft.pc = "done"
    /\ draft.outcome = "ValidationError" /\ draft.raised_in = "generate_draft_preview"
    /\ draft.evidence_reads = 1
    /\ draft.rag_calls = 0 /\ draft.llm_calls = 0

\* an export_draft call whose validations passed ended in the ValidationError of the
\* conversion, after the searches and the completion
ExportConversionErrorAfterWork ==
    /\ draft.op = "export" /\ draft.pc = "done"
    /\ draft.outcome = "ValidationError" /\ draft.raised_in = "export_draft"
    /\ draft.rag_calls = 2 /\ draft.llm_calls = 1

(***************************************************************************)
(* Normalization of one record (SpecEvent).                                *)
(***************************************************************************)
\* the call has normalized its one record into one event
OneEvent == Normalized /\ Len(evidence_list) = 1 /\ Len(all_events) = 1

\* str.lower() of the type names of the model
LowerTypeName(v) ==
    CASE v = "AUDIO" -> "audio"
      [] v = "Text" -> "text"
      [] v = "PDF" -> "pdf"
      [] OTHER -> v

\* the table of the type mapping as specified: TYPE_MAPPING and the two entries
\* message and incident
SpecifiedTypeTable ==
    TYPE_MAPPING @@ ("message" :> "message") @@ ("incident" :> "incident")

\* the event type by a case-insensitive lookup in the specified table
SpecifiedEventType(ty) ==
    IF ty.k = "str" /\ LowerTypeName(ty.v) \in DOMAIN SpecifiedTypeTable
    THEN SpecifiedTypeTable[LowerTypeName(ty.v)]
    ELSE "document"

\* C22: the event type of a normalized event is the entry of the lower-cased raw
\* type in the table text->message, image->image, audio->audio, video->video,
\* pdf->document, document->document, message->message, incident->incident, and
\* document for every other raw type and for an absent type.
C22_TypeByCaseInsensitiveLookup ==
    OneEvent => all_events[1].event_type = SpecifiedEventType(evidence_list[1].type)

\* what the code does: the exact key of TYPE_MAPPING (six entries), else document
TypeByExactLookup ==
    OneEvent =>
        LET ty == evidence_list[1].type
        IN  all_events[1].event_type =
                IF ty.k = "str" /\ ty.v \in DOMAIN TYPE_MAPPING
                THEN TYPE_MAPPING[ty.v] ELSE "document"

\* the raw type "AUDIO" gave a document event
UpperCaseTypeIsDocument ==
    /\ OneEvent
    /\ evidence_list[1].type = StrType("AUDIO")
    /\ all_events[1].event_type = "document"

\* the raw type "incident" gave a document event
IncidentTypeIsDocument ==
    /\ OneEvent
    /\ evidence_list[1].type = StrType("incident")
    /\ all_events[1].event_type = "document"

\* the str of a label name of the model, as code points
LabelText ==
    ("bujeonghaengwi" :> <<48512, 51221, 54665, 50948>>) @@
    ("pokhaeng" :> <<54253, 54665>>) @@
    ("hakdae" :> <<54617, 45824>>) @@
    ("yugi" :> <<50976, 44592>>) @@
    ("hyeopbak" :> <<54801, 48149>>) @@
    ("wihyeop" :> <<50948, 54801>>) @@
    ("aguiuiyugi" :> <<50501, 51032, 51032, 50976, 44592>>) @@
    ("pokeon" :> <<54253, 50616>>) @@
    ("gyesokjeok_bulhwa" :> <<44228, 49549, 51201, 95, 48520, 54868>>) @@
    ("honin_patan" :> <<54844, 51064, 95, 54028, 53444>>) @@
    ("jaesan_munje" :> <<51116, 49328, 95, 47928, 51228>>) @@
    ("yangyuk_munje" :> <<50577, 50977, 95, 47928, 51228>>) @@
    ("gita" :> <<44592, 53440>>) @@
    ("pokhaeng_sanghae" :> <<54253, 54665, 95, 49345, 54644>>)

\* a in b of Python, for two str
IsSubstring(a, b) ==
    \E i \in 0..(Len(b) - Len(a)) : SubSeq(b, i + 1, i + Len(a)) = a

\* the key matches the label case-insensitively, one being a part of the other
KeyMatches(key, label) ==
    LET k == Lower(LabelText[key])
        l == Lower(LabelText[label])
    IN  IsSubstring(k, l) \/ IsSubstring(l, k)

\* the weights of the table entries that match some label of the list
MatchedWeights(items) ==
    {SIGNIFICANCE_WEIGHTS[key] : key \in
        {k \in DOMAIN SIGNIFICANCE_WEIGHTS : \E i \in 1..Len(items) : KeyMatches(k, items[i])}}

\* the significance as specified: the largest matched weight, 1 without a match, at most 5
SpecifiedSignificance(items) ==
    IF MatchedWeights(items) = {} THEN 1
    ELSE Min(CHOOSE w \in MatchedWeights(items) : \A v \in MatchedWeights(items) : v <= w, 5)

\* the one record has a labels list, and it was normalized
LabelListScored == OneEvent /\ evidence_list[1].labels.k = "list"

\* C23: the significance of a label list is the maximum weight over the table
\* entries whose key matches some label case-insensitively as a part of the label
\* or the label as a part of the key; it is 1 when no label matches or the list is
\* empty, and never exceeds 5.
C23_SignificanceBySubstringMatch ==
    LabelListScored =>
        /\ all_events[1].significance = SpecifiedSignificance(evidence_list[1].labels.items)
        /\ all_events[1].significance \in 1..5

\* what the code does: the largest weight of the labels that are keys of the table
SignificanceByExactKey ==
    LabelListScored =>
        LET items == evidence_list[1].labels.items
            keys == {items[i] : i \in 1..Len(items)} \cap DOMAIN SIGNIFICANCE_WEIGHTS
        IN  /\ all_events[1].significance \in 1..5
            /\ keys = {} => all_events[1].significance = 1
            /\ keys # {} =>
                   /\ \E k \in keys : all_events[1].significance = SIGNIFICANCE_WEIGHTS[k]
                   /\ \A k \in keys : all_events[1].significance >= SIGNIFICANCE_WEIGHTS[k]

\* the label list ["폭행_상해"] has significance 1
CompoundLabelScoresOne ==
    /\ LabelListScored
    /\ evidence_list[1].labels.items = <<"pokhaeng_sanghae">>
    /\ all_events[1].significance = 1
    /\ SpecifiedSignificance(<<"pokhaeng_sanghae">>) = 5

\* the call has normalized its one record: into one event, or into none
OneRecord == Normalized /\ Len(evidence_list) = 1

\* C24: identifier resolution uses the evidence_id field when present, otherwise
\* the id field; a record with neither field fails normalization and yields no
\* event, so no event has an empty or null evidence_id and event_id is always the
\* prefix evt_ followed by a non-empty identifier.
C24_IdentifierNeverEmpty ==
    OneRecord =>
        LET ev == evidence_list[1]
        IN  /\ (ev.evidence_id.k = "absent" /\ ev.id.k = "absent") => all_events = <<>>
            /\ \A i \in 1..Len(all_events) :
                   /\ all_events[i].evidence_id # <<>>
                   /\ all_events[i].event_id = EVT_PREFIX \o all_events[i].evidence_id
                   /\ Len(all_events[i].event_id) > Len(EVT_PREFIX)
                   /\ all_events[i].evidence_id =
                          IF TruthyStr(ev.evidence_id) THEN ev.evidence_id.s ELSE ev.id.s

\* what the code does: the identifier is evidence_id if it is a non-empty str, else
\* id, else (no id key) the empty str; the record yields no event exactly when that
\* value is None
IdentifierOrEmpty ==
    OneRecord =>
        LET ev == evidence_list[1]
            chosen == IF TruthyStr(ev.evidence_id) THEN ev.evidence_id
                      ELSE IF ev.id.k = "absent" THEN Str(<<>>) ELSE ev.id
        IN  /\ (all_events = <<>>) <=> (chosen.k = "none" \/ NormalizationFails(ev))
            /\ \A i \in 1..Len(all_events) :
                   /\ all_events[i].evidence_id = chosen.s
                   /\ all_events[i].event_id = EVT_PREFIX \o chosen.s

\* a record with neither evidence_id nor id gave an event whose evidence_id is
\* empty and whose event_id is "evt_"
EventWithoutIdentifier ==
    /\ OneRecord
    /\ evidence_list[1].evidence_id.k = "absent" /\ evidence_list[1].id.k = "absent"
    /\ Len(all_events) = 1
    /\ all_events[1].evidence_id = <<>>
    /\ all_events[1].event_id = EVT_PREFIX

\* a decimal digit
IsDigit(c) == c \in 48..57

\* the str has the shape YYYY-MM-DD
IsoDateShape(s) ==
    /\ Len(s) = 10
    /\ \A i \in {1, 2, 3, 4, 6, 7, 9, 10} : IsDigit(s[i])
    /\ s[5] = 45 /\ s[8] = 45

\* the str has the shape HH:MM
ClockShape(s) ==
    /\ Len(s) = 5
    /\ \A i \in {1, 2, 4, 5} : IsDigit(s[i])
    /\ s[3] = 58

\* the number a str of digits writes
RECURSIVE DecimalValue(_)
DecimalValue(s) ==
    IF s = <<>> THEN 0 ELSE 10 * DecimalValue(SubSeq(s, 1, Len(s) - 1)) + (s[Len(s)] - 48)

\* the record differs from the plain record in its timestamp fields only
OnlyTimestampVaries(ev) ==
    [ev EXCEPT !.timestamp = PlainRaw.timestamp, !.created_at = PlainRaw.created_at] = PlainRaw

\* C25: a record whose timestamp is absent, of a shape other than str or datetime,
\* or an unparseable str still yields an event; and for every event, timestamp is
\* absent exactly when date is the unknown-date sentinel, exactly when time is the
\* empty str; otherwise date is YYYY-MM-DD and time is HH:MM of the timestamp.
C25_TimestampAbsentIffSentinel ==
    OneRecord =>
        /\ OnlyTimestampVaries(evidence_list[1]) => Len(all_events) = 1
        /\ \A i \in 1..Len(all_events) :
               LET e == all_events[i]
               IN  /\ ~e.timestamp.present <=> e.date = UNKNOWN_DATE
                   /\ ~e.timestamp.present <=> e.time = <<>>
                   /\ e.timestamp.present =>
                          /\ IsoDateShape(e.date) /\ ClockShape(e.time)
                          /\ DecimalValue(SubSeq(e.date, 1, 4)) = e.timestamp.y
                          /\ DecimalValue(SubSeq(e.date, 6, 7)) = e.timestamp.mo
                          /\ DecimalValue(SubSeq(e.date, 9, 10)) = e.timestamp.d
                          /\ DecimalValue(SubSeq(e.time, 1, 2)) = e.timestamp.h
                          /\ DecimalValue(SubSeq(e.time, 4, 5)) = e.timestamp.mi

\* a record whose timestamp is a str fromisoformat rejects, and that has no
\* created_at, gave an event of unknown date and empty time
C25_Witness ==
    /\ OneRecord
    /\ evidence_list[1].timestamp = BadTs /\ evidence_list[1].created_at = NoTs
    /\ Len(all_events) = 1
    /\ ~all_events[1].timestamp.present
    /\ all_events[1].date = UNKNOWN_DATE
    /\ all_events[1].time = <<>>

\* a record with a datetime object gave an event with its date and time
DatedEventOfDatetime ==
    /\ OneRecord
    /\ evidence_list[1].timestamp = DatetimeTs(2024, 3, 5, 14, 30, "naive")
    /\ Len(all_events) = 1
    /\ all_events[1].date = Day(2024, 3, 5)
    /\ all_events[1].time = <<49, 52, 58, 51, 48>>

\* the minutes a UTC offset of the model adds to UTC (a naive timestamp is taken as UTC)
OffsetMinutes(tz) == IF tz = "+09:00" THEN 540 ELSE 0

\* the fields of the UTC instant of a timestamp (astimezone(timezone.utc)), for
\* an offset >= 0 and a day that is not the first of its month
UtcFields(ts) ==
    LET local == ts.h * 60 + ts.mi
        utc == local - OffsetMinutes(ts.tz)
        borrow == utc < 0
        minutes == IF borrow THEN utc + 1440 ELSE utc
    IN  [ts EXCEPT !.d = IF borrow THEN ts.d - 1 ELSE ts.d,
                   !.h = minutes \div 60, !.mi = minutes % 60, !.tz = "+00:00"]

\* C26: when a raw timestamp carries a UTC offset, the event's timestamp is
\* normalized to UTC and its date and time are those of the UTC instant (a naive
\* timestamp is taken as UTC), so that two records denoting the same instant with
\* different offsets get the same date and time.
C26_DisplayIsUtc ==
    OneEvent =>
        LET e == all_events[1]
        IN  e.timestamp.present =>
                /\ e.date = FormatDate(UtcFields(e.timestamp))
                /\ e.time = FormatTime(UtcFields(e.timestamp))

\* what the code does: date and time are the fields as written, with any offset
DisplayIsAsWritten ==
    OneEvent =>
        LET e == all_events[1]
            raw == TimestampStr(evidence_list[1])
        IN  e.timestamp.present =>
                /\ e.date = FormatDate(raw)
                /\ e.time = FormatTime(raw)
                /\ e.timestamp.tz = IF raw.k = "str" /\ raw.tz = "Z" THEN "+00:00" ELSE raw.tz

\* the record of 2024-03-05T23:30+09:00 (14:30 UTC) gave an event with time 23:30
OffsetTimeShownAsWritten ==
    /\ OneEvent
    /\ evidence_list[1].timestamp = IsoTs(2024, 3, 5, 23, 30, "+09:00")
    /\ all_events[1].time = <<50, 51, 58, 51, 48>>
    /\ FormatTime(UtcFields(all_events[1].timestamp)) = <<49, 52, 58, 51, 48>>

\* the record of 2024-03-06T00:30+09:00 (2024-03-05 15:30 UTC) gave an event of
\* the date 2024-03-06
OffsetDateShownAsWritten ==
    /\ OneEvent
    /\ evidence_list[1].timestamp = IsoTs(2024, 3, 6, 0, 30, "+09:00")
    /\ all_events[1].date = Day(2024, 3, 6)
    /\ FormatDate(UtcFields(all_events[1].timestamp)) = Day(2024, 3, 5)

\* the field holds a non-empty str
NonEmptyText(v) == v.k = "str" /\ v.n > 0

\* the source of the description as specified: the AI summary if non-empty, else
\* the summary if non-empty, else the filename if non-empty, else the placeholder
SpecifiedDescriptionSource(ev) ==
    IF NonEmptyText(ev.ai_summary) THEN ev.ai_summary
    ELSE IF NonEmptyText(ev.summary) THEN ev.summary
    ELSE IF NonEmptyText(ev.filename) THEN ev.filename
    ELSE PLACEHOLDER

\* C27: the description of an event is the AI summary if non-empty, else the
\* summary if non-empty, else the filename if non-empty, else the placeholder
\* 증거 자료; a record whose summaries and filename are all absent, null or empty
\* still yields an event with the placeholder; the description is never longer
\* than 100 characters and ends with the ellipsis marker exactly when the source
\* text was longer than 100 characters.
C27_DescriptionFallbackChain ==
    OneRecord =>
        LET ev == evidence_list[1]
            source == SpecifiedDescriptionSource(ev)
        IN  /\ (~NonEmptyText(ev.ai_summary) /\ ~NonEmptyText(ev.summary)
                    /\ ~NonEmptyText(ev.filename)) =>
                   Len(all_events) = 1 /\ all_events[1].description = PLACEHOLDER
            /\ \A i \in 1..Len(all_events) :
                   LET d == all_events[i].description
                   IN  /\ d.name = source.name
                       /\ d.n <= DESCRIPTION_MAX
                       /\ d.ell <=> source.n > DESCRIPTION_MAX
                       /\ source.n <= DESCRIPTION_MAX => d = source

\* what the code does for a record without a non-empty summary: the placeholder
\* only when the filename key is missing; the filename "" is the description;
\* the filename None ends the record
FilenameIsLastFallback ==
    OneRecord =>
        LET ev == evidence_list[1]
        IN  (~NonEmptyText(ev.ai_summary) /\ ~NonEmptyText(ev.summary)) =>
                /\ ev.filename.k = "absent" =>
                       Len(all_events) = 1 /\ all_events[1].description = PLACEHOLDER
                /\ ev.filename = EmptyText =>
                       Len(all_events) = 1 /\ all_events[1].description = EmptyText
                /\ ev.filename.k = "none" => all_events = <<>>

\* the clipping holds: at most 100 characters, the last three the marker exactly
\* when the chosen text had more than 100
DescriptionClipped ==
    OneRecord =>
        \A i \in 1..Len(all_events) :
            LET d == all_events[i].description
                chosen == RawDescription(evidence_list[1])
            IN  /\ d.n <= DESCRIPTION_MAX
                /\ d.ell <=> chosen.n > DESCRIPTION_MAX
                /\ d.ell => d.n = DESCRIPTION_MAX /\ d.name = chosen.name
                /\ ~d.ell => d = chosen

\* a record without summaries and with the filename "" gave an event with the
\* description ""
EmptyFilenameEmptyDescription ==
    /\ OneRecord
    /\ evidence_list[1].ai_summary = NoText /\ evidence_list[1].summary = NoText
    /\ evidence_list[1].filename = EmptyText
    /\ Len(all_events) = 1
    /\ all_events[1].description = EmptyText

\* a record without summaries and with the filename None gave no event
NoneFilenameNoEvent ==
    /\ OneRecord
    /\ evidence_list[1].ai_summary = NoText /\ evidence_list[1].summary = NoText
    /\ evidence_list[1].filename = NoneText
    /\ all_events = <<>>

\* some label of the list is a member of KEY_EVIDENCE_LABELS
HasKeyLabel(items) == \E i \in 1..Len(items) : items[i] \in KEY_EVIDENCE_LABELS

\* C28: the numeric-threshold policy and the literal-label-set policy agree: for
\* every label list, significance >= 4 exactly when at least one label is a member
\* of KEY_EVIDENCE_LABELS, and KEY_EVIDENCE_LABELS is exactly the set of the
\* weight-table keys of weight 4 or 5.
C28_ThresholdAgreesWithLabelSet ==
    /\ KEY_EVIDENCE_LABELS =
           {k \in DOMAIN SIGNIFICANCE_WEIGHTS : SIGNIFICANCE_WEIGHTS[k] \in {4, 5}}
    /\ OneEvent =>
           LET items == ExtractLabels(evidence_list[1]).items
               e == all_events[1]
           IN  /\ e.significance >= KEY_EVIDENCE_THRESHOLD <=> HasKeyLabel(items)
               /\ e.is_key_evidence <=> HasKeyLabel(items)

\* the list ["기타", "유기"] (a label that is no key, a key of weight 4) gave an
\* event of significance 4 that is key evidence
C28_Witness ==
    /\ OneEvent
    /\ evidence_list[1].labels = ListLabels(<<"gita", "yugi">>)
    /\ all_events[1].significance = 4
    /\ all_events[1].is_key_evidence

\* the largest table weight over the labels of a list, 1 for the empty list
LargestWeight(items) ==
    LET weights == {Weight(items[i]) : i \in 1..Len(items)} \cup {1}
    IN  CHOOSE w \in weights : \A v \in weights : v <= w

\* C29: the significance and is_key_evidence of every event are consistent with
\* the labels the event carries: significance is the maximum table weight over
\* event.labels (1 when event.labels is empty), so an event with an empty labels
\* list is never key evidence, also when the raw labels value is not a list.
C29_SignificanceOfCarriedLabels ==
    Normalized =>
        \A i \in 1..Len(all_events) :
            LET e == all_events[i]
            IN  /\ e.significance = LargestWeight(e.labels)
                /\ e.is_key_evidence <=> LargestWeight(e.labels) >= KEY_EVIDENCE_THRESHOLD
                /\ e.labels = <<>> => ~e.is_key_evidence

\* what the code does: the significance is that of the labels value read from the
\* record, whatever its shape; the event carries its labels only when it is a list
SignificanceOfRawLabels ==
    OneEvent =>
        LET raw == ExtractLabels(evidence_list[1])
            e == all_events[1]
        IN  /\ e.significance = LargestWeight(raw.items)
            /\ e.labels = IF raw.k = "list" THEN raw.items ELSE <<>>
            /\ raw.k = "list" => e.significance = LargestWeight(e.labels)

\* a record whose labels value is the tuple ("폭행",) gave an event without
\* labels, of significance 5, that is key evidence
KeyEvidenceWithoutLabels ==
    /\ OneEvent
    /\ evidence_list[1].labels = TupleLabels(<<"pokhaeng">>)
    /\ all_events[1].labels = <<>>
    /\ all_events[1].significance = 5
    /\ all_events[1].is_key_evidence

(***************************************************************************)
(* Empty and all-invalid list parameters (SpecEmptyLists).                 *)
(***************************************************************************)
\* the optional list is an empty list
IsEmptyList(v) == v.k = "list" /\ v.items = <<>>

\* the filter with every empty list replaced by None
WithoutEmptyLists(f) ==
    [f EXCEPT !.labels = IF IsEmptyList(@) THEN NoList ELSE @,
              !.speakers = IF IsEmptyList(@) THEN NoList ELSE @,
              !.event_types = IF IsEmptyList(@) THEN NoList ELSE @]

\* the event_types query value is non-empty and none of its tokens is valid
OnlyInvalidEventTypes(q) ==
    q # NoQuery /\ TruthyStr(q.event_types) /\ ValidEventTypes(q.event_types) = {}

\* the optional list restricts nothing: it is None or empty
Unrestricting(v) == v.k = "none" \/ IsEmptyList(v)

\* C30: a request whose event_types value is non-empty but holds only invalid
\* tokens is processed with no event-type restriction: its filtered sequence is
\* that of the same request with the event_types parameter omitted; and an empty
\* labels, speakers or event_types list in a TimelineFilter restricts nothing.
C30_InvalidOnlyIsOmitted ==
    Filtered =>
        LET f == EffectiveFilter(req)
        IN  /\ OnlyInvalidEventTypes(query) =>
                   filtered_events =
                       ApplyFilters(all_events, FilterOfQuery([query EXCEPT !.event_types = None]))
            /\ filtered_events = ApplyFilters(all_events, WithoutEmptyLists(f))
            /\ (/\ Unrestricting(f.labels) /\ Unrestricting(f.speakers)
                /\ Unrestricting(f.event_types)
                /\ ~TruthyStr(f.date_start) /\ ~TruthyStr(f.date_end) /\ ~f.key_only) =>
                   /\ Len(filtered_events) = Len(all_events)
                   /\ Range(filtered_events) = Range(all_events)

\* C30 witness: the request through the endpoint had the event_types value
\* "bogus,unknown" and no other restriction; both events of the case, of
\* different types, are in the filtered sequence.
C30_Witness ==
    /\ Filtered
    /\ OnlyInvalidEventTypes(query)
    /\ query.event_types = ET_INVALID
    /\ query.labels = None /\ query.speakers = None
    /\ Len(all_events) = 2
    /\ all_events[1].event_type # all_events[2].event_type
    /\ Len(filtered_events) = 2

\* a direct call whose filter holds three empty lists kept both events of the case
EmptyListsKeepAll ==
    /\ Filtered
    /\ query = NoQuery
    /\ IsEmptyList(req.filter.labels) /\ IsEmptyList(req.filter.speakers)
    /\ IsEmptyList(req.filter.event_types)
    /\ Len(all_events) = 2
    /\ Len(filtered_events) = 2

====
